---- MODULE Spec2Model ----
(***************************************************************************)
(* Model of the KJV verse-per-page static site builder (build.mjs) and of  *)
(* its data fetcher (fetch-data.mjs): book normalisation, corpus assembly, *)
(* reference flattening, navigation links and sitemap grouping.            *)
(*                                                                         *)
(* JavaScript strings are modelled as sequences of one-character strings,  *)
(* so that slugify, String(n) and Number(s) are computed, not assumed.     *)
(***************************************************************************)
EXTENDS Integers, Sequences, FiniteSets, TLC

\* ------------------------------------------------------------------------
\* Characters and strings
\* ------------------------------------------------------------------------
Digits == <<"0","1","2","3","4","5","6","7","8","9">>
Upper == <<"A","B","C","D","E","F","G","H","I","J","K","L","M","N","O","P","Q","R","S","T","U","V","W","X","Y","Z">>
Lower == <<"a","b","c","d","e","f","g","h","i","j","k","l","m","n","o","p","q","r","s","t","u","v","w","x","y","z">>
\* the characters the regular-expression class \s and String.trim match
WhiteSpace == {" ", "\t", "\n"}

Occurs(c, seq) == \E q \in 1..Len(seq) : seq[q] = c
PosIn(c, seq) == CHOOSE q \in 1..Len(seq) : seq[q] = c
IsDigit(c) == Occurs(c, Digits)
IsUpper(c) == Occurs(c, Upper)
IsLower(c) == Occurs(c, Lower)

\* String.prototype.trim: from the first to the last non-white-space character
trim(s) ==
    LET solid == {j \in 1..Len(s) : s[j] \notin WhiteSpace}
    IN  IF solid = {} THEN <<>>
        ELSE SubSeq(s, CHOOSE a \in solid : \A b \in solid : a <= b,
                       CHOOSE a \in solid : \A b \in solid : a >= b)

\* String.prototype.toLowerCase
toLowerCase(s) ==
    [j \in 1..Len(s) |-> IF IsUpper(s[j]) THEN Lower[PosIn(s[j], Upper)] ELSE s[j]]

\* (mutant) the class written without the digits: .replace(/[^a-z\s]/g, "")
StripNonSlugChars_NoDigits(s) ==
    SelectSeq(s, LAMBDA c : IsLower(c) \/ c \in WhiteSpace)

\* .replace(/[^a-z0-9\s]/g, "")
StripNonSlugChars(s) ==
    SelectSeq(s, LAMBDA c : IsLower(c) \/ IsDigit(c) \/ c \in WhiteSpace)

\* .replace(/\s+/g, "-"): the first character of every run of white space
\* becomes a hyphen and the rest of the run goes
HyphenateSpaces(s) ==
    LET marked == [j \in 1..Len(s) |->
                     IF s[j] \notin WhiteSpace THEN s[j]
                     ELSE IF j > 1 /\ s[j - 1] \in WhiteSpace THEN "" ELSE "-"]
    IN  SelectSeq(marked, LAMBDA c : c # "")

slugify(s) == HyphenateSpaces(StripNonSlugChars(toLowerCase(trim(s))))

DotJson == <<".","j","s","o","n">>
fileFromName(name) ==
    SelectSeq(name, LAMBDA c : IsDigit(c) \/ IsUpper(c) \/ IsLower(c)) \o DotJson

\* String(n) of a non-negative integer: its canonical decimal digits
RECURSIVE Dec(_)
Dec(n) ==
    IF n < 10 THEN <<Digits[n + 1]>>
    ELSE Dec(n \div 10) \o <<Digits[(n % 10) + 1]>>

\* the value of a non-empty string of decimal digits
RECURSIVE DecVal(_)
DecVal(s) ==
    IF s = <<>> THEN 0
    ELSE 10 * DecVal(SubSeq(s, 1, Len(s) - 1)) + (PosIn(s[Len(s)], Digits) - 1)

\* ------------------------------------------------------------------------
\* Canonical book order
\* ------------------------------------------------------------------------
OT ==
    << <<"G","e","n","e","s","i","s">>
    ,  <<"E","x","o","d","u","s">>
    ,  <<"L","e","v","i","t","i","c","u","s">>
    ,  <<"N","u","m","b","e","r","s">>
    ,  <<"D","e","u","t","e","r","o","n","o","m","y">>
    ,  <<"J","o","s","h","u","a">>
    ,  <<"J","u","d","g","e","s">>
    ,  <<"R","u","t","h">>
    ,  <<"1"," ","S","a","m","u","e","l">>
    ,  <<"2"," ","S","a","m","u","e","l">>
    ,  <<"1"," ","K","i","n","g","s">>
    ,  <<"2"," ","K","i","n","g","s">>
    ,  <<"1"," ","C","h","r","o","n","i","c","l","e","s">>
    ,  <<"2"," ","C","h","r","o","n","i","c","l","e","s">>
    ,  <<"E","z","r","a">>
    ,  <<"N","e","h","e","m","i","a","h">>
    ,  <<"E","s","t","h","e","r">>
    ,  <<"J","o","b">>
    ,  <<"P","s","a","l","m","s">>
    ,  <<"P","r","o","v","e","r","b","s">>
    ,  <<"E","c","c","l","e","s","i","a","s","t","e","s">>
    ,  <<"S","o","n","g"," ","o","f"," ","S","o","l","o","m","o","n">>
    ,  <<"I","s","a","i","a","h">>
    ,  <<"J","e","r","e","m","i","a","h">>
    ,  <<"L","a","m","e","n","t","a","t","i","o","n","s">>
    ,  <<"E","z","e","k","i","e","l">>
    ,  <<"D","a","n","i","e","l">>
    ,  <<"H","o","s","e","a">>
    ,  <<"J","o","e","l">>
    ,  <<"A","m","o","s">>
    ,  <<"O","b","a","d","i","a","h">>
    ,  <<"J","o","n","a","h">>
    ,  <<"M","i","c","a","h">>
    ,  <<"N","a","h","u","m">>
    ,  <<"H","a","b","a","k","k","u","k">>
    ,  <<"Z","e","p","h","a","n","i","a","h">>
    ,  <<"H","a","g","g","a","i">>
    ,  <<"Z","e","c","h","a","r","i","a","h">>
    ,  <<"M","a","l","a","c","h","i">>
    >>

NT ==
    << <<"M","a","t","t","h","e","w">>
    ,  <<"M","a","r","k">>
    ,  <<"L","u","k","e">>
    ,  <<"J","o","h","n">>
    ,  <<"A","c","t","s">>
    ,  <<"R","o","m","a","n","s">>
    ,  <<"1"," ","C","o","r","i","n","t","h","i","a","n","s">>
    ,  <<"2"," ","C","o","r","i","n","t","h","i","a","n","s">>
    ,  <<"G","a","l","a","t","i","a","n","s">>
    ,  <<"E","p","h","e","s","i","a","n","s">>
    ,  <<"P","h","i","l","i","p","p","i","a","n","s">>
    ,  <<"C","o","l","o","s","s","i","a","n","s">>
    ,  <<"1"," ","T","h","e","s","s","a","l","o","n","i","a","n","s">>
    ,  <<"2"," ","T","h","e","s","s","a","l","o","n","i","a","n","s">>
    ,  <<"1"," ","T","i","m","o","t","h","y">>
    ,  <<"2"," ","T","i","m","o","t","h","y">>
    ,  <<"T","i","t","u","s">>
    ,  <<"P","h","i","l","e","m","o","n">>
    ,  <<"H","e","b","r","e","w","s">>
    ,  <<"J","a","m","e","s">>
    ,  <<"1"," ","P","e","t","e","r">>
    ,  <<"2"," ","P","e","t","e","r">>
    ,  <<"1"," ","J","o","h","n">>
    ,  <<"2"," ","J","o","h","n">>
    ,  <<"3"," ","J","o","h","n">>
    ,  <<"J","u","d","e">>
    ,  <<"R","e","v","e","l","a","t","i","o","n">>
    >>

Canon == OT \o NT

\* ------------------------------------------------------------------------
\* JavaScript values
\*   scalars: [k, n, s] with k in undef, null, num, nan, str
\*   verse objects: [k |-> "obj", verse, num, v, text, t]
\* ------------------------------------------------------------------------
Undef == [k |-> "undef", n |-> 0, s |-> <<>>]
Null == [k |-> "null", n |-> 0, s |-> <<>>]
NaN == [k |-> "nan", n |-> 0, s |-> <<>>]
JNum(n) == [k |-> "num", n |-> n, s |-> <<>>]
JStr(s) == [k |-> "str", n |-> 0, s |-> s]
VObj(verse, num, v, text, t) ==
    [k |-> "obj", verse |-> verse, num |-> num, v |-> v, text |-> text, t |-> t]

\* a ?? b
Coalesce(a, b) == IF a.k \in {"undef", "null"} THEN b ELSE a

\* String(x)
JSString(x) ==
    CASE x.k = "str" -> x.s
      [] x.k = "num" -> Dec(x.n)
      [] x.k = "nan" -> <<"N","a","N">>
      [] x.k = "null" -> <<"n","u","l","l">>
      [] x.k = "undef" -> <<"u","n","d","e","f","i","n","e","d">>
      [] x.k = "obj" -> <<"[","o","b","j","e","c","t"," ","O","b","j","e","c","t","]">>

\* Number(s) of a string: surrounding white space is ignored, the empty
\* string is 0, a string of decimal digits is its value, anything else NaN.
\* (Signs, fractions, exponents and radix prefixes are outside the alphabet
\* of the inputs enumerated below.)
StringToNumber(s) ==
    LET t == trim(s)
    IN  IF t = <<>> THEN JNum(0)
        ELSE IF \A i \in 1..Len(t) : IsDigit(t[i]) THEN JNum(DecVal(t))
        ELSE NaN

\* Number(x)
JSNumber(x) ==
    CASE x.k = "num" -> x
      [] x.k = "nan" -> x
      [] x.k = "str" -> StringToNumber(x.s)
      [] x.k = "null" -> JNum(0)
      [] x.k = "undef" -> NaN
      [] x.k = "obj" -> NaN

\* A JavaScript object with string keys is a function on its key set.
EmptyObject == [x \in {} |-> Undef]
Put(obj, key, val) ==
    [x \in (DOMAIN obj) \cup {key} |-> IF x = key THEN val ELSE obj[x]]

\* A key is an array index when it is the canonical decimal string of a
\* number; Object.keys and Object.entries list those first, ascending, and
\* then the other keys in insertion order.
IsIndexKey(key) ==
    key # <<>> /\ (\A i \in 1..Len(key) : IsDigit(key[i])) /\ Dec(DecVal(key)) = key

RECURSIVE SortedByValue(_)
SortedByValue(keys) ==
    IF keys = {} THEN <<>>
    ELSE LET m == CHOOSE a \in keys : \A b \in keys : DecVal(a) <= DecVal(b)
         IN  <<m>> \o SortedByValue(keys \ {m})

RECURSIVE SeqOfSet(_)
SeqOfSet(S) ==
    IF S = {} THEN <<>>
    ELSE LET m == CHOOSE a \in S : TRUE IN <<m>> \o SeqOfSet(S \ {m})

\* Object.keys(obj)
ObjectKeys(obj) ==
    SortedByValue({key \in DOMAIN obj : IsIndexKey(key)})
        \o SeqOfSet({key \in DOMAIN obj : ~IsIndexKey(key)})

\* ------------------------------------------------------------------------
\* Raw book JSON, as JSON.parse returns it
\*   verses of one chapter: an array, a mapping (its entries in the order of
\*   the JSON text, keys distinct) or something else (absent, a scalar)
\*   a book: {chapters:[...]}, {chapters:{...}}, a top-level array, or other
\* ------------------------------------------------------------------------
VArr(items) == [k |-> "arr", items |-> items, ents |-> <<>>]
VMap(ents) == [k |-> "map", items |-> <<>>, ents |-> ents]
VNone == [k |-> "none", items |-> <<>>, ents |-> <<>>]

DataChArr(chs) == [k |-> "chArr", chs |-> chs, ents |-> <<>>, rows |-> <<>>]
DataChMap(ents) == [k |-> "chMap", chs |-> <<>>, ents |-> ents, rows |-> <<>>]
DataArr(rows) == [k |-> "arr", chs |-> <<>>, ents |-> <<>>, rows |-> rows]
DataOther == [k |-> "other", chs |-> <<>>, ents |-> <<>>, rows |-> <<>>]

\* Object.entries(obj) of a parsed JSON mapping
RECURSIVE IndexEntries(_, _)
IndexEntries(ents, left) ==
    IF left = {} THEN <<>>
    ELSE LET m == CHOOSE i \in left :
                    \A j \in left : DecVal(ents[i][1]) <= DecVal(ents[j][1])
         IN  <<ents[m]>> \o IndexEntries(ents, left \ {m})
ObjectEntries(ents) ==
    IndexEntries(ents, {i \in 1..Len(ents) : IsIndexKey(ents[i][1])})
        \o SelectSeq(ents, LAMBDA e : ~IsIndexKey(e[1]))

\* ------------------------------------------------------------------------
\* normalizeBook
\* ------------------------------------------------------------------------
\* versesObj.forEach((v,i)=>{...}) of addChapter, from index i on
RECURSIVE ArrayVmap(_, _, _)
ArrayVmap(items, i, vmap) ==
    IF i > Len(items) THEN vmap
    ELSE LET v == items[i]
         IN  IF v.k = "obj"
             THEN LET num == JSString(Coalesce(v.verse,
                                 Coalesce(v.num, Coalesce(v.v, JNum(i)))))
                      txt == JSString(Coalesce(v.text, Coalesce(v.t, JStr(<<>>))))
                  IN  ArrayVmap(items, i + 1, Put(vmap, num, txt))
             ELSE ArrayVmap(items, i + 1,
                            Put(vmap, Dec(i), JSString(Coalesce(v, JStr(<<>>)))))

\* for (const [k,v] of Object.entries(versesObj)) vmap[String(k)] = String(v ?? "")
RECURSIVE EntriesVmap(_, _)
EntriesVmap(ents, vmap) ==
    IF ents = <<>> THEN vmap
    ELSE EntriesVmap(Tail(ents),
                     Put(vmap, Head(ents)[1],
                         JSString(Coalesce(Head(ents)[2], JStr(<<>>)))))

\* (mutant) verseCount taken from the raw input: versesObj.length, or the
\* number of entries of the mapping
addChapter_CountsEntries(chapters, chNum, versesObj) ==
    LET vmap == IF versesObj.k = "arr" THEN ArrayVmap(versesObj.items, 1, EmptyObject)
                ELSE IF versesObj.k = "map"
                     THEN EntriesVmap(ObjectEntries(versesObj.ents), EmptyObject)
                     ELSE EmptyObject
    IN  Put(chapters, JSString(JSNumber(chNum)),
            [verseCount |-> Len(versesObj.items) + Len(versesObj.ents), verses |-> vmap])

\* addChapter(chNum, versesObj), on the chapters object built so far
addChapter(chapters, chNum, versesObj) ==
    LET vmap == IF versesObj.k = "arr" THEN ArrayVmap(versesObj.items, 1, EmptyObject)
                ELSE IF versesObj.k = "map"
                     THEN EntriesVmap(ObjectEntries(versesObj.ents), EmptyObject)
                     ELSE EmptyObject
    IN  Put(chapters, JSString(JSNumber(chNum)),
            [verseCount |-> Len(ObjectKeys(vmap)), verses |-> vmap])

\* for (const ch of data.chapters) { ... addChapter(Number(ch.chapter), vv) }
RECURSIVE ChapterArrayLoop(_, _)
ChapterArrayLoop(chs, chapters) ==
    IF chs = <<>> THEN chapters
    ELSE LET ch == Head(chs)
             chNum == JSNumber(ch.chapter)
             vv == IF ch.verses.k = "arr" THEN ch.verses
                   ELSE IF ch.verses.k = "none" THEN VMap(<<>>) ELSE ch.verses
         IN  ChapterArrayLoop(Tail(chs), addChapter(chapters, chNum, vv))

\* for (const [chNum, verses] of Object.entries(data.chapters)) addChapter(chNum, verses)
RECURSIVE ChapterMapLoop(_, _)
ChapterMapLoop(ents, chapters) ==
    IF ents = <<>> THEN chapters
    ELSE ChapterMapLoop(Tail(ents),
                        addChapter(chapters, JStr(Head(ents)[1]), Head(ents)[2]))

\* (mutant) the chapters of a top-level array numbered from 0: addChapter(i, chap)
RECURSIVE TopArrayLoop_ZeroBased(_, _, _)
TopArrayLoop_ZeroBased(rows, i, chapters) ==
    IF i > Len(rows) THEN chapters
    ELSE TopArrayLoop_ZeroBased(rows, i + 1, addChapter(chapters, JNum(i - 1), rows[i]))

\* data.forEach((chap,i)=> addChapter(i+1, chap)), from index i on
RECURSIVE TopArrayLoop(_, _, _)
TopArrayLoop(rows, i, chapters) ==
    IF i > Len(rows) THEN chapters
    ELSE TopArrayLoop(rows, i + 1, addChapter(chapters, JNum(i), rows[i]))

Returned(name, chapters) ==
    [ok |-> TRUE, book |-> [name |-> name, chapters |-> chapters], err |-> ""]
Thrown(name, msg) ==
    [ok |-> FALSE, book |-> [name |-> name, chapters |-> EmptyObject], err |-> msg]

normalizeBook(name, data) ==
    IF data.k = "chArr" THEN Returned(name, ChapterArrayLoop(data.chs, EmptyObject))
    ELSE IF data.k = "chMap"
         THEN Returned(name, ChapterMapLoop(ObjectEntries(data.ents), EmptyObject))
    ELSE IF data.k = "arr" /\ Len(data.rows) > 0 /\ data.rows[1].k = "arr"
         THEN Returned(name, TopArrayLoop(data.rows, 1, EmptyObject))
    ELSE Thrown(name, "Unrecognized book JSON structure.")

\* ------------------------------------------------------------------------
\* flattenRefs and urlsByBook
\* ------------------------------------------------------------------------
\* a - b of the sort comparator; NaN when either side is NaN
\* Array.prototype.sort((a,b)=>a-b): a stable insertion sort; a comparison
\* that yields NaN counts as 0 (the elements are left in their order)
ComesAfter(a, b) == a.k = "num" /\ b.k = "num" /\ a.n > b.n
RECURSIVE InsertSorted(_, _)
InsertSorted(sorted, x) ==
    IF sorted # <<>> /\ ComesAfter(sorted[Len(sorted)], x)
    THEN InsertSorted(SubSeq(sorted, 1, Len(sorted) - 1), x) \o <<sorted[Len(sorted)]>>
    ELSE sorted \o <<x>>
RECURSIVE SortNumeric(_)
SortNumeric(arr) ==
    IF arr = <<>> THEN <<>>
    ELSE InsertSorted(SortNumeric(SubSeq(arr, 1, Len(arr) - 1)), arr[Len(arr)])

\* (mutant) the chapter keys sorted as strings, as .sort() without a
\* comparator does: "10" comes before "2"
CharOrder == Digits \o Upper \o Lower
RECURSIVE StringBefore(_, _)
StringBefore(a, b) ==
    IF a = <<>> THEN b # <<>>
    ELSE IF b = <<>> THEN FALSE
    ELSE IF Head(a) = Head(b) THEN StringBefore(Tail(a), Tail(b))
    ELSE PosIn(Head(a), CharOrder) < PosIn(Head(b), CharOrder)
RECURSIVE LexicalOrder(_)
LexicalOrder(keys) ==
    IF keys = {} THEN <<>>
    ELSE LET m == CHOOSE a \in keys : \A b \in keys : a = b \/ StringBefore(a, b)
         IN  <<StringToNumber(m)>> \o LexicalOrder(keys \ {m})
ChapterNumbers_Lexical(book) == LexicalOrder(DOMAIN book.chapters)

\* Object.keys(book.chapters).map(Number).sort((a,b)=>a-b)
ChapterNumbers(book) ==
    LET keys == ObjectKeys(book.chapters)
    IN  SortNumeric([i \in 1..Len(keys) |-> StringToNumber(keys[i])])

\* (mutant) the verse loop stops one short: v < verseCount
RECURSIVE VerseLoop_Exclusive(_, _, _, _, _)
VerseLoop_Exclusive(name, slug, ch, chapter, v) ==
    IF v >= chapter.verseCount THEN <<>>
    ELSE LET text == IF Dec(v) \in DOMAIN chapter.verses
                     THEN chapter.verses[Dec(v)] ELSE <<>>
         IN  <<[bookName |-> name, bookSlug |-> slug, chapter |-> ch,
                verse |-> v, text |-> text]>>
             \o VerseLoop_Exclusive(name, slug, ch, chapter, v + 1)

\* (mutant) a number without a key in the verses map is skipped
RECURSIVE VerseLoop_SkipMissing(_, _, _, _, _)
VerseLoop_SkipMissing(name, slug, ch, chapter, v) ==
    IF v > chapter.verseCount THEN <<>>
    ELSE (IF Dec(v) \in DOMAIN chapter.verses
          THEN <<[bookName |-> name, bookSlug |-> slug, chapter |-> ch,
                  verse |-> v, text |-> chapter.verses[Dec(v)]]>>
          ELSE <<>>)
         \o VerseLoop_SkipMissing(name, slug, ch, chapter, v + 1)

\* (mutant) every reference of a chapter carries the verse number verseCount
RECURSIVE VerseLoop_CountAsVerse(_, _, _, _, _)
VerseLoop_CountAsVerse(name, slug, ch, chapter, v) ==
    IF v > chapter.verseCount THEN <<>>
    ELSE LET text == IF Dec(v) \in DOMAIN chapter.verses
                     THEN chapter.verses[Dec(v)] ELSE <<>>
         IN  <<[bookName |-> name, bookSlug |-> slug, chapter |-> ch,
                verse |-> chapter.verseCount, text |-> text]>>
             \o VerseLoop_CountAsVerse(name, slug, ch, chapter, v + 1)

\* for (let v=1; v<=verseCount; v++) out.push({...}), from verse v on
RECURSIVE VerseLoop(_, _, _, _, _)
VerseLoop(name, slug, ch, chapter, v) ==
    IF v > chapter.verseCount THEN <<>>
    ELSE LET text == IF Dec(v) \in DOMAIN chapter.verses
                     THEN chapter.verses[Dec(v)] ELSE <<>>
         IN  <<[bookName |-> name, bookSlug |-> slug, chapter |-> ch,
                verse |-> v, text |-> text]>>
             \o VerseLoop(name, slug, ch, chapter, v + 1)

RECURSIVE ChapterLoop(_, _, _, _)
ChapterLoop(name, slug, book, chNums) ==
    IF chNums = <<>> THEN <<>>
    ELSE VerseLoop(name, slug, Head(chNums),
                   book.chapters[JSString(Head(chNums))], 1)
         \o ChapterLoop(name, slug, book, Tail(chNums))

\* slugify(name) of every canonical name, by position in [...OT, ...NT]
CanonSlug == [p \in 1..Len(Canon) |-> slugify(Canon[p])] @@ <<>>

\* for (const name of [...OT, ...NT]) of flattenRefs, from position i on.
\* booksMap is the Map of buildAll: [keys: insertion order, val: slug -> Book]
RECURSIVE BookLoop(_, _)
BookLoop(booksMap, i) ==
    IF i > Len(Canon) THEN <<>>
    ELSE LET name == Canon[i]
             slug == CanonSlug[i]
         IN  (IF slug \in DOMAIN booksMap.val
              THEN ChapterLoop(name, slug, booksMap.val[slug],
                               ChapterNumbers(booksMap.val[slug]))
              ELSE <<>>)
             \o BookLoop(booksMap, i + 1)

flattenRefs(booksMap) == BookLoop(booksMap, 1)

\* ------------------------------------------------------------------------
\* Map (insertion-ordered): [keys: sequence of keys, val: key -> value]
\* ------------------------------------------------------------------------
EmptyMap == [keys |-> <<>>, val |-> EmptyObject]
MapHas(m, key) == key \in DOMAIN m.val
MapSet(m, key, v) ==
    [keys |-> IF MapHas(m, key) THEN m.keys ELSE Append(m.keys, key),
     val |-> Put(m.val, key, v)]
\* map.get(key) || []
MapGetOrEmpty(m, key) == IF MapHas(m, key) THEN m.val[key] ELSE <<>>

\* const SITE = process.env.SITE || "https://kjv.the-holy-bible.online"
SITE == <<"h","t","t","p","s",":","/","/","k","j","v",".","t","h","e","-","h","o","l","y","-","b","i","b","l","e",".","o","n","l","i","n","e">>
Slash == <<"/">>
\* `${SITE}/`, `${SITE}/${slug}/`, `${SITE}/${slug}/${ch}/`, `${SITE}/${slug}/${ch}/${v}/`
RootLoc == SITE \o Slash
BookLoc(slug) == SITE \o Slash \o slug \o Slash
ChapterLoc(slug, ch) == SITE \o Slash \o slug \o Slash \o JSString(ch) \o Slash
VerseLoc(slug, ch, v) ==
    SITE \o Slash \o slug \o Slash \o JSString(ch) \o Slash \o Dec(v) \o Slash

\* the chapter hub entries of one book: for (const ch of chNums) arr.push(...)
ChapterHubEntries(slug, chNums, buildDate) ==
    [j \in 1..Len(chNums) |-> [loc |-> ChapterLoc(slug, chNums[j]), lastmod |-> buildDate]]

\* (mutant) the seeding pushes the chapter hubs but not the book hub
RECURSIVE SeedLoop_ChaptersOnly(_, _, _, _)
SeedLoop_ChaptersOnly(booksMap, i, buildDate, map) ==
    IF i > Len(booksMap.keys) THEN map
    ELSE LET slug == booksMap.keys[i]
             chNums == ChapterNumbers(booksMap.val[slug])
             arr == MapGetOrEmpty(map, slug) \o ChapterHubEntries(slug, chNums, buildDate)
         IN  SeedLoop_ChaptersOnly(booksMap, i + 1, buildDate, MapSet(map, slug, arr))

\* for (const [slug, book] of booksMap.entries()) { ... map.set(slug, arr) }
RECURSIVE SeedLoop(_, _, _, _)
SeedLoop(booksMap, i, buildDate, map) ==
    IF i > Len(booksMap.keys) THEN map
    ELSE LET slug == booksMap.keys[i]
             chNums == ChapterNumbers(booksMap.val[slug])
             arr == MapGetOrEmpty(map, slug)
                    \o <<[loc |-> BookLoc(slug), lastmod |-> buildDate]>>
                    \o ChapterHubEntries(slug, chNums, buildDate)
         IN  SeedLoop(booksMap, i + 1, buildDate, MapSet(map, slug, arr))

\* (mutant) the verse URLs are built without the chapter: /slug/verse/
RECURSIVE LeafLoop_NoChapter(_, _, _)
LeafLoop_NoChapter(refList, buildDate, map) ==
    IF refList = <<>> THEN map
    ELSE LET r == Head(refList)
             arr == MapGetOrEmpty(map, r.bookSlug)
                    \o <<[loc |-> ChapterLoc(r.bookSlug, JNum(r.verse)),
                          lastmod |-> buildDate]>>
         IN  LeafLoop_NoChapter(Tail(refList), buildDate, MapSet(map, r.bookSlug, arr))

\* for (const r of refs) { ... arr.push(verse URL); map.set(r.bookSlug, arr) }
RECURSIVE LeafLoop(_, _, _)
LeafLoop(refList, buildDate, map) ==
    IF refList = <<>> THEN map
    ELSE LET r == Head(refList)
             arr == MapGetOrEmpty(map, r.bookSlug)
                    \o <<[loc |-> VerseLoc(r.bookSlug, r.chapter, r.verse),
                          lastmod |-> buildDate]>>
         IN  LeafLoop(Tail(refList), buildDate, MapSet(map, r.bookSlug, arr))

\* urlsByBook(refs, booksMap); buildDate is the value new Date() returns
\* when it is called (toISOString is one-to-one on millisecond clocks)
urlsByBook(refList, booksMap, buildDate) ==
    LeafLoop(refList, buildDate, SeedLoop(booksMap, 1, buildDate, EmptyMap))

\* ------------------------------------------------------------------------
\* Inputs: logical books and their encodings in the three raw shapes
\* ------------------------------------------------------------------------
\* A logical book is a function from its chapter numbers to the chapter's
\* ordered list of verse texts.
Texts == {<<"a">>, <<"b">>}

RECURSIVE Ascending(_)
Ascending(S) ==
    IF S = {} THEN <<>>
    ELSE LET m == CHOOSE a \in S : \A b \in S : a <= b
         IN  <<m>> \o Ascending(S \ {m})
Reverse(seq) == [j \in 1..Len(seq) |-> seq[Len(seq) + 1 - j]]

\* the verses of one chapter: scalars, verse objects, or a mapping
EncVerses(list, style) ==
    CASE style = "scalar" -> VArr([j \in 1..Len(list) |-> JStr(list[j])])
      [] style = "object" ->
            VArr([j \in 1..Len(list) |->
                    VObj(JNum(j), Undef, Undef, JStr(list[j]), Undef)])
      [] style = "mapping" ->
            VMap([j \in 1..Len(list) |-> <<Dec(j), JStr(list[j])>>])

\* {chapters:[{chapter:N, verses:...}, ...]}, chapters listed in `order`
Shape1(L, order, style) ==
    DataChArr([j \in 1..Len(order) |->
                 [chapter |-> JNum(order[j]), verses |-> EncVerses(L[order[j]], style)]])
\* {chapters:{"N":verses, ...}}, keys written in `order`
Shape2(L, order, style) ==
    DataChMap([j \in 1..Len(order) |-> <<Dec(order[j]), EncVerses(L[order[j]], style)>>])
\* [[...], [...], ...]: the chapters in ascending order, one array each
Shape3(L, style) ==
    LET asc == Ascending(DOMAIN L)
    IN  DataArr([j \in 1..Len(asc) |->
                   EncVerses(L[asc[j]], IF style = "mapping" THEN "scalar" ELSE style)])

Encode(shape, L, descending, style) ==
    LET asc == Ascending(DOMAIN L)
        order == IF descending THEN Reverse(asc) ELSE asc
    IN  CASE shape = 1 -> Shape1(L, order, style)
          [] shape = 2 -> Shape2(L, order, style)
          [] shape = 3 -> Shape3(L, style)

\* the raw book files a source may hold
BookA == (1 :> << <<"a">>, <<"b">> >>)
BookB == (1 :> << <<"a">> >>) @@ (2 :> << <<"b">> >>) @@ (3 :> << <<"a">> >>)
BookC == (2 :> << <<"a">>, <<"b">> >>) @@ (10 :> << <<"b">> >>)
BookD == (1 :> << <<"a">> >>) @@ (2 :> << >>) @@ (3 :> << <<"b">> >>)
BookE == [c \in {} |-> <<>>]
CorpusBlobs ==
    { Shape2(BookA, <<1>>, "mapping"),
      Shape2(BookB, <<3, 1, 2>>, "scalar"),
      Shape1(BookC, <<10, 2>>, "object"),
      Shape3(BookD, "scalar"),
      Shape1(BookE, <<>>, "scalar"),
      DataArr(<<>>) }

\* the names Books.json may list: three canonical ones and one that is not
Genesis == OT[1]
Exodus == OT[2]
Matthew == NT[1]
Tobit == <<"T","o","b","i","t">>
IndexUniverse == {Genesis, Exodus, Matthew, Tobit}

Range(seq) == {seq[j] : j \in 1..Len(seq)}
BooksJson == <<"B","o","o","k","s",".","j","s","o","n">>

\* const BASES = [...]: the remote mirrors, in list order
BASES ==
    << "jsdelivr:Living-Word-Bibles", "raw:Living-Word-Bibles",
       "jsdelivr:aruljohn/Bible-kjv", "raw:aruljohn/Bible-kjv",
       "jsdelivr:aruljohn/Bible-kjv-1611", "raw:aruljohn/Bible-kjv-1611" >>

\* the clock is followed for this many milliseconds
MaxClock == 1
\* logical books of the normalisation check: chapters within 1..MaxChapter,
\* at most MaxVerses verses each
MaxChapter == 2
MaxVerses == 2

RECURSIVE SeqsUpTo(_, _)
SeqsUpTo(S, n) ==
    IF n = 0 THEN {<<>>}
    ELSE LET shorter == SeqsUpTo(S, n - 1)
         IN  shorter \cup {Append(q, x) : q \in {r \in shorter : Len(r) = n - 1}, x \in S}
LogicalBooks ==
    UNION {[D -> SeqsUpTo(Texts, MaxVerses)] : D \in SUBSET (1..MaxChapter)}

\* ------------------------------------------------------------------------
\* State
\* ------------------------------------------------------------------------
VARIABLES
    index,        \* the array Books.json holds
    store,        \* file name -> the raw book JSON the sources hold
    now,          \* the clock, in milliseconds
    pc,           \* where buildAll is
    assets,       \* writeStaticAssets has run
    ld,           \* the running loadJSON call
    requested,    \* the files loadJSON was called for, in order
    nameSet,      \* new Set(names)
    books,        \* the Map slug -> Book
    cur,          \* position in [...OT, ...NT] of the book being loaded
    warnings,     \* the names console.warn reported missing
    refs,         \* flattenRefs(books)
    hb, hc,       \* hub loop: book position in books, chapter position (0: the book hub)
    hubPages,     \* what bookIndexHTML / chapterIndexHTML were handed
    pageIdx,      \* i of the verse page loop
    versePages,   \* what pageHTML was handed, in order
    byBook,       \* urlsByBook(refs, books)
    mainDate,     \* buildDate of buildAll
    mainXml,      \* the entries written to sitemaps/main.xml
    xmlIdx,       \* position of the per-book sitemap loop in byBook
    bookXmls,     \* the per-book sitemap files written
    smEntries,    \* the sitemap index entries
    smIndex,      \* the entries written to sitemap-index.xml / sitemap.xml
    err,          \* the error buildAll was rejected with
    nin,          \* function check: the input (for normalizeBook, the logical book)
    nout          \* function check: the results (for normalizeBook, one per shape)

envVars == <<index, store>>
loadVars == <<ld, requested>>
asmVars == <<nameSet, books, cur, warnings>>
hubVars == <<hb, hc, hubPages>>
pageVars == <<pageIdx, versePages>>
mapVars == <<byBook, mainDate, mainXml, xmlIdx, bookXmls, smEntries, smIndex>>
normVars == <<nin, nout>>
vars == <<index, store, now, pc, assets, ld, requested, nameSet, books, cur,
          warnings, refs, hb, hc, hubPages, pageIdx, versePages, byBook,
          mainDate, mainXml, xmlIdx, bookXmls, smEntries, smIndex, err, nin, nout>>

NoLoad == [rel |-> <<>>, src |-> 0, phase |-> "idle", lastErr |-> ""]
\* loadJSON(rel) up to its first await: readLocalJSON(rel) is pending
LoadCall(rel) == [rel |-> rel, src |-> 0, phase |-> "read", lastErr |-> ""]
NoErr == [msg |-> "", rel |-> <<>>, lastErr |-> ""]
NoResult == [s \in 1..3 |-> <<>>]

BuildStart ==
    /\ now = 0
    /\ pc = "cleanOut"
    /\ assets = FALSE
    /\ ld = NoLoad
    /\ requested = <<>>
    /\ nameSet = {}
    /\ books = EmptyMap
    /\ cur = 0
    /\ warnings = <<>>
    /\ refs = <<>>
    /\ hb = 0 /\ hc = 0
    /\ hubPages = <<>>
    /\ pageIdx = 0
    /\ versePages = <<>>
    /\ byBook = EmptyMap
    /\ mainDate = 0
    /\ mainXml = <<>>
    /\ xmlIdx = 0
    /\ bookXmls = <<>>
    /\ smEntries = <<>>
    /\ smIndex = <<>>
    /\ err = NoErr

Init ==
    /\ index \in {SeqOfSet(S) : S \in SUBSET IndexUniverse}
    /\ store \in [{fileFromName(n) : n \in Range(index) \cap Range(Canon)} -> CorpusBlobs]
    /\ BuildStart
    /\ nin = BookE
    /\ nout = NoResult

\* ------------------------------------------------------------------------
\* buildAll
\* ------------------------------------------------------------------------
\* what a source returns for a file
FileContent(rel) == IF rel = BooksJson THEN index ELSE store[rel]

\* `${SITE}/sitemaps/${slug}.xml`
SitemapLoc(file) ==
    SITE \o <<"/","s","i","t","e","m","a","p","s","/">> \o file \o <<".","x","m","l">>
MainFile == <<"m","a","i","n">>

\* (mutant) the loop runs over OT only: the names of NT are never loaded
RECURSIVE NextPresent_OTOnly(_, _)
NextPresent_OTOnly(pos, set) ==
    IF pos > Len(OT) THEN Len(Canon) + 1
    ELSE IF Canon[pos] \in set THEN pos
    ELSE NextPresent_OTOnly(pos + 1, set)

\* the first position from `pos` on whose canonical name is in the index
RECURSIVE NextPresent(_, _)
NextPresent(pos, set) ==
    IF pos > Len(Canon) \/ Canon[pos] \in set THEN pos
    ELSE NextPresent(pos + 1, set)

\* urlsByBook(refs, books), then await ensureDir(smDir)
BeginSitemaps(refsNow, booksNow) ==
    /\ byBook' = urlsByBook(refsNow, booksNow, now)
    /\ pc' = "smDir"

\* for (let i=0; i<refs.length; i++): the first await of the loop, or past it
BeginVerses(refsNow, booksNow) ==
    IF Len(refsNow) > 0
    THEN pc' = "verses" /\ UNCHANGED byBook
    ELSE BeginSitemaps(refsNow, booksNow)

\* for (const [slug, book] of books.entries()): the first await, or past it
BeginHubs(refsNow, booksNow) ==
    IF Len(booksNow.keys) > 0
    THEN pc' = "hubs" /\ hb' = 1 /\ hc' = 0 /\ UNCHANGED byBook
    ELSE BeginVerses(refsNow, booksNow) /\ UNCHANGED <<hb, hc>>

\* (mutant) the references are flattened anew after every book is stored,
\* while later books are still to be loaded
ContinueAssembly_Eager(pos, set, booksNow) ==
    LET p == NextPresent(pos, set)
        flat == flattenRefs(booksNow)
    IN  /\ books' = booksNow
        /\ warnings' = warnings \o SubSeq(Canon, pos, p - 1)
        /\ cur' = p
        /\ refs' = flat
        /\ IF p <= Len(Canon)
           THEN /\ ld' = LoadCall(fileFromName(Canon[p]))
                /\ requested' = Append(requested, fileFromName(Canon[p]))
                /\ pc' = "loadBook"
                /\ UNCHANGED <<hb, hc, byBook>>
           ELSE /\ ld' = NoLoad
                /\ UNCHANGED requested
                /\ BeginHubs(flat, booksNow)

\* the loop over [...OT, ...NT] from position `pos` on, up to its next await
\* (loadBook of the next name the index has), or, past the loop, flattenRefs
\* and what follows up to the next await
ContinueAssembly(pos, set, booksNow) ==
    LET p == NextPresent(pos, set)
        flat == flattenRefs(booksNow)
    IN  /\ books' = booksNow
        /\ warnings' = warnings \o SubSeq(Canon, pos, p - 1)
        /\ cur' = p
        /\ IF p <= Len(Canon)
           THEN /\ ld' = LoadCall(fileFromName(Canon[p]))
                /\ requested' = Append(requested, fileFromName(Canon[p]))
                /\ pc' = "loadBook"
                /\ UNCHANGED <<refs, hb, hc, byBook>>
           ELSE /\ ld' = NoLoad
                /\ UNCHANGED requested
                /\ refs' = flat
                /\ BeginHubs(flat, booksNow)

\* loadJSON returns `value`: loadIndex or loadBook resumes
Deliver(value) ==
    IF pc = "loadIndex"
    THEN /\ nameSet' = Range(value)
         /\ ContinueAssembly(1, Range(value), EmptyMap)
         /\ UNCHANGED err
    ELSE LET name == Canon[cur]
             r == normalizeBook(name, value)
         IN  IF r.ok
             THEN /\ ContinueAssembly(cur + 1, nameSet, MapSet(books, CanonSlug[cur], r.book))
                  /\ UNCHANGED <<nameSet, err>>
             ELSE /\ pc' = "failed"
                  /\ err' = [msg |-> r.err, rel |-> <<>>, lastErr |-> ""]
                  /\ ld' = NoLoad
                  /\ UNCHANGED <<requested, nameSet, books, cur, warnings, refs,
                                 hb, hc, byBook>>

\* await cleanOut()
CleanOut ==
    /\ pc = "cleanOut"
    /\ pc' = "assets"
    /\ UNCHANGED <<envVars, now, assets, loadVars, asmVars, refs, hubVars,
                   pageVars, mapVars, err, normVars>>

\* await writeStaticAssets(); loadIndex() calls loadJSON("Books.json")
WriteStaticAssets ==
    /\ pc = "assets"
    /\ assets' = TRUE
    /\ ld' = LoadCall(BooksJson)
    /\ requested' = Append(requested, BooksJson)
    /\ pc' = "loadIndex"
    /\ UNCHANGED <<envVars, now, asmVars, refs, hubVars, pageVars, mapVars,
                   err, normVars>>

\* try { return await readLocalJSON(rel); } catch {}
ReadLocal ==
    /\ ld.phase = "read"
    /\ \E ok \in BOOLEAN :
          IF ok
          THEN Deliver(FileContent(ld.rel))
          ELSE /\ ld' = [ld EXCEPT !.src = 1, !.phase = "fetch"]
               /\ UNCHANGED <<pc, requested, asmVars, refs, hb, hc, byBook, err>>
    /\ UNCHANGED <<envVars, now, assets, hubPages, pageVars, mainDate, mainXml,
                   xmlIdx, bookXmls, smEntries, smIndex, normVars>>

\* try { return await fetchJSON(base + rel); } catch(e){ lastErr = e.message; }
FetchRemote ==
    /\ ld.phase = "fetch"
    /\ \E ok \in BOOLEAN :
          IF ok
          THEN Deliver(FileContent(ld.rel))
          ELSE /\ ld' = [ld EXCEPT !.lastErr = BASES[ld.src], !.phase = "sleep"]
               /\ UNCHANGED <<pc, requested, asmVars, refs, hb, hc, byBook, err>>
    /\ UNCHANGED <<envVars, now, assets, hubPages, pageVars, mainDate, mainXml,
                   xmlIdx, bookXmls, smEntries, smIndex, normVars>>

\* await sleep(50); then the next base, or past the loop the throw
Sleep ==
    /\ ld.phase = "sleep"
    /\ IF ld.src < Len(BASES)
       THEN /\ ld' = [ld EXCEPT !.src = ld.src + 1, !.phase = "fetch"]
            /\ UNCHANGED <<pc, err>>
       ELSE /\ pc' = "failed"
            /\ err' = [msg |-> "Unable to load", rel |-> ld.rel, lastErr |-> ld.lastErr]
            /\ ld' = NoLoad
    /\ UNCHANGED <<envVars, now, assets, requested, asmVars, refs, hubVars,
                   pageVars, mapVars, normVars>>

\* versesCount = book.chapters[ch].verseCount || 1
OrOne(n) == IF n = 0 THEN 1 ELSE n

\* one hub page: mkdir and writeFile of /book/ (hc = 0) or /book/chapter/
WriteHubPage ==
    /\ pc = "hubs"
    /\ LET slug == books.keys[hb]
           book == books.val[slug]
           chNums == ChapterNumbers(book)
           page == IF hc = 0
                   THEN [bookName |-> book.name, slug |-> slug, kind |-> "book",
                         chapter |-> Undef, childCount |-> Len(chNums)]
                   ELSE [bookName |-> book.name, slug |-> slug, kind |-> "chapter",
                         chapter |-> chNums[hc],
                         childCount |->
                            OrOne(book.chapters[JSString(chNums[hc])].verseCount)]
       IN  /\ hubPages' = Append(hubPages, page)
           /\ IF hc < Len(chNums)
              THEN hc' = hc + 1 /\ UNCHANGED <<hb, pc, byBook>>
              ELSE IF hb < Len(books.keys)
                   THEN hb' = hb + 1 /\ hc' = 0 /\ UNCHANGED <<pc, byBook>>
                   ELSE BeginVerses(refs, books) /\ UNCHANGED <<hb, hc>>
    /\ UNCHANGED <<envVars, now, assets, loadVars, asmVars, refs, pageVars,
                   mainDate, mainXml, xmlIdx, bookXmls, smEntries, smIndex, err, normVars>>

\* { bookSlug, chapter, verse } of a reference
Projection(r) == [bookSlug |-> r.bookSlug, chapter |-> r.chapter, verse |-> r.verse]

\* (mutant) prev is taken one element too far to the right: refs[i]
VersePage_PrevOffByOne(pos) ==
    LET curr == refs[pos + 1]
    IN  [bookName |-> curr.bookName,
         bookSlug |-> curr.bookSlug,
         chapter |-> curr.chapter,
         verse |-> curr.verse,
         verseText |-> curr.text,
         totalVerses |->
            books.val[curr.bookSlug].chapters[JSString(curr.chapter)].verseCount,
         prevRef |-> IF pos > 0 THEN <<Projection(refs[pos + 1])>> ELSE <<>>,
         nextRef |-> IF pos < Len(refs) - 1 THEN <<Projection(refs[pos + 2])>> ELSE <<>>]

\* (mutant) links stay inside the book: none across a book boundary
VersePage_SameBookOnly(pos) ==
    LET curr == refs[pos + 1]
    IN  [bookName |-> curr.bookName,
         bookSlug |-> curr.bookSlug,
         chapter |-> curr.chapter,
         verse |-> curr.verse,
         verseText |-> curr.text,
         totalVerses |->
            books.val[curr.bookSlug].chapters[JSString(curr.chapter)].verseCount,
         prevRef |-> IF pos > 0 /\ refs[pos].bookSlug = curr.bookSlug
                     THEN <<Projection(refs[pos])>> ELSE <<>>,
         nextRef |-> IF pos < Len(refs) - 1 /\ refs[pos + 2].bookSlug = curr.bookSlug
                     THEN <<Projection(refs[pos + 2])>> ELSE <<>>]

\* what pageHTML is handed for refs[pos] (pos counts from 0, as i does in the source)
VersePage(pos) ==
    LET curr == refs[pos + 1]
    IN  [bookName |-> curr.bookName,
         bookSlug |-> curr.bookSlug,
         chapter |-> curr.chapter,
         verse |-> curr.verse,
         verseText |-> curr.text,
         totalVerses |->
            books.val[curr.bookSlug].chapters[JSString(curr.chapter)].verseCount,
         prevRef |-> IF pos > 0 THEN <<Projection(refs[pos])>> ELSE <<>>,
         nextRef |-> IF pos < Len(refs) - 1 THEN <<Projection(refs[pos + 2])>> ELSE <<>>]

\* one iteration of the verse page loop: ensureDir, pageHTML, writeFile
WriteVersePage ==
    /\ pc = "verses"
    /\ versePages' = Append(versePages, VersePage(pageIdx))
    /\ pageIdx' = pageIdx + 1
    /\ IF pageIdx + 1 < Len(refs)
       THEN UNCHANGED <<pc, byBook>>
       ELSE BeginSitemaps(refs, books)
    /\ UNCHANGED <<envVars, now, assets, loadVars, asmVars, refs, hubVars,
                   mainDate, mainXml, xmlIdx, bookXmls, smEntries, smIndex, err, normVars>>

\* await ensureDir(smDir); const buildDate = new Date().toISOString();
\* writeFile(main.xml, ...) is called
EnsureSmDir ==
    /\ pc = "smDir"
    /\ mainDate' = now
    /\ pc' = "mainXml"
    /\ UNCHANGED <<envVars, now, assets, loadVars, asmVars, refs, hubVars,
                   pageVars, byBook, mainXml, xmlIdx, bookXmls, smEntries, smIndex,
                   err, normVars>>

\* main.xml is written; smEntries starts with it; the per-book loop begins
WriteMainXml ==
    /\ pc = "mainXml"
    /\ mainXml' = <<[loc |-> RootLoc, lastmod |-> mainDate]>>
    /\ smEntries' = <<SitemapLoc(MainFile)>>
    /\ IF Len(byBook.keys) > 0
       THEN pc' = "bookXml" /\ xmlIdx' = 1
       ELSE pc' = "smIndex" /\ UNCHANGED xmlIdx
    /\ UNCHANGED <<envVars, now, assets, loadVars, asmVars, refs, hubVars,
                   pageVars, byBook, mainDate, bookXmls, smIndex, err, normVars>>

\* (mutant) the per-book file is written but not listed in the index
WriteBookXml_NoPush ==
    /\ pc = "bookXml"
    /\ bookXmls' = Append(bookXmls, [file |-> byBook.keys[xmlIdx],
                                     items |-> byBook.val[byBook.keys[xmlIdx]]])
    /\ xmlIdx' = xmlIdx + 1
    /\ pc' = IF xmlIdx < Len(byBook.keys) THEN "bookXml" ELSE "smIndex"
    /\ UNCHANGED <<envVars, now, assets, loadVars, asmVars, refs, hubVars,
                   pageVars, byBook, mainDate, mainXml, smEntries, smIndex, err,
                   normVars>>

\* await writeFile(`${slug}.xml`, ...); smEntries.push(...)
WriteBookXml ==
    /\ pc = "bookXml"
    /\ bookXmls' = Append(bookXmls, [file |-> byBook.keys[xmlIdx],
                                     items |-> byBook.val[byBook.keys[xmlIdx]]])
    /\ smEntries' = Append(smEntries, SitemapLoc(byBook.keys[xmlIdx]))
    /\ xmlIdx' = xmlIdx + 1
    /\ pc' = IF xmlIdx < Len(byBook.keys) THEN "bookXml" ELSE "smIndex"
    /\ UNCHANGED <<envVars, now, assets, loadVars, asmVars, refs, hubVars,
                   pageVars, byBook, mainDate, mainXml, smIndex, err, normVars>>

\* sitemap-index.xml, sitemap.xml and robots.txt are written
WriteSitemapIndex ==
    /\ pc = "smIndex"
    /\ smIndex' = <<smEntries>>
    /\ pc' = "done"
    /\ UNCHANGED <<envVars, now, assets, loadVars, asmVars, refs, hubVars,
                   pageVars, byBook, mainDate, mainXml, xmlIdx, bookXmls, smEntries,
                   err, normVars>>

\* a millisecond passes while buildAll awaits
Tick ==
    /\ pc \notin {"done", "failed"}
    /\ now < MaxClock
    /\ now' = now + 1
    /\ UNCHANGED <<envVars, pc, assets, loadVars, asmVars, refs, hubVars,
                   pageVars, mapVars, err, normVars>>

Next ==
    \/ CleanOut
    \/ WriteStaticAssets
    \/ ReadLocal
    \/ FetchRemote
    \/ Sleep
    \/ WriteHubPage
    \/ WriteVersePage
    \/ EnsureSmDir
    \/ WriteMainXml
    \/ WriteBookXml
    \/ WriteSitemapIndex
    \/ Tick

Spec == Init /\ [][Next]_vars

\* ------------------------------------------------------------------------
\* normalizeBook applied to the three encodings of one logical book
\* ------------------------------------------------------------------------
Styles == {"scalar", "object", "mapping"}

NormInit ==
    /\ nin \in LogicalBooks
    /\ nout = NoResult
    /\ index = <<>>
    /\ store = EmptyObject
    /\ BuildStart

\* normalizeBook(name, data) for data one encoding of the logical book
NormalizeShape ==
    /\ \E shape \in 1..3, style \in Styles, descending \in BOOLEAN :
          /\ nout[shape] = <<>>
          /\ nout' = [nout EXCEPT ![shape] =
                         <<normalizeBook(Genesis, Encode(shape, nin, descending, style))>>]
    /\ UNCHANGED <<envVars, now, pc, assets, loadVars, asmVars, refs, hubVars,
                   pageVars, mapVars, err, nin>>

SpecNormalize == NormInit /\ [][NormalizeShape]_vars

\* the canonical Book of a logical book: chapter keys, verseCount, verse keys
CanonicalBook(name, L) ==
    [name |-> name,
     chapters |-> [key \in {Dec(c) : c \in DOMAIN L} |->
                     LET c == CHOOSE d \in DOMAIN L : Dec(d) = key
                     IN  [verseCount |-> Len(L[c]),
                          verses |-> [vk \in {Dec(v) : v \in 1..Len(L[c])} |->
                                        L[c][CHOOSE v \in 1..Len(L[c]) : Dec(v) = vk]]]]]

\* C1 as stated: for every logical book, the three shapes make normalizeBook
\* return the same Book (same chapter keys, same verseCount per chapter, same
\* verse-key-to-text map).
C1_ShapeIndependence ==
    \A s1 \in 1..3, s2 \in 1..3 :
        (nout[s1] # <<>> /\ nout[s2] # <<>>)
            => /\ nout[s1][1].ok
               /\ nout[s2][1].ok
               /\ nout[s1][1].book = nout[s2][1].book

\* C1 amended: for every logical book whose chapter numbers are exactly 1..n
\* with n >= 1, each of the three shapes makes normalizeBook return the same
\* Book: chapter keys "1".."n", verseCount the number of verses of the
\* chapter and verse key String(v) mapped to the v-th text.
Contiguous(L) == DOMAIN L # {} /\ DOMAIN L = 1..Cardinality(DOMAIN L)
C1_ShapeIndependenceContiguous ==
    Contiguous(nin) =>
        \A s1 \in 1..3 :
            nout[s1] # <<>> =>
                /\ nout[s1][1].ok
                /\ nout[s1][1].book = CanonicalBook(Genesis, nin)
                /\ \A s2 \in 1..3 : nout[s2] # <<>> => nout[s2][1].book = nout[s1][1].book

\* all three shapes of a two-chapter book have been normalised
C1_Witness ==
    /\ DOMAIN nin = {1, 2}
    /\ Len(nin[1]) = 2 /\ Len(nin[2]) = 1
    /\ \A s1 \in 1..3 : nout[s1] # <<>> /\ nout[s1][1].ok

\* ------------------------------------------------------------------------
\* Properties of the build
\* ------------------------------------------------------------------------
\* flattenRefs has returned
Flattened == pc \in {"hubs", "verses", "smDir", "mainXml", "bookXml", "smIndex", "done"}
\* urlsByBook has returned
Grouped == pc \in {"smDir", "mainXml", "bookXml", "smIndex", "done"}

\* the sum of verseCount over the chapters (of `keys`) of a book
RECURSIVE SumVerseCounts(_, _)
SumVerseCounts(book, keys) ==
    IF keys = {} THEN 0
    ELSE LET m == CHOOSE a \in keys : TRUE
         IN  book.chapters[m].verseCount + SumVerseCounts(book, keys \ {m})
BookVerseTotal(book) == SumVerseCounts(book, DOMAIN book.chapters)
\* the same over the books (of `slugs`) of the corpus
RECURSIVE SumBookTotals(_)
SumBookTotals(slugs) ==
    IF slugs = {} THEN 0
    ELSE LET m == CHOOSE a \in slugs : TRUE
         IN  BookVerseTotal(books.val[m]) + SumBookTotals(slugs \ {m})
CorpusVerseTotal == SumBookTotals(DOMAIN books.val)

\* C2: the length of the sequence returned by flattenRefs equals the sum,
\* over all books of the corpus and all their chapters, of verseCount.
C2_FlattenLength == Flattened => Len(refs) = CorpusVerseTotal

\* three books of the corpus contribute verses, one chapter contributes none
C2_Witness ==
    /\ Flattened
    /\ Cardinality(DOMAIN books.val) = 3
    /\ Cardinality({refs[p].bookSlug : p \in 1..Len(refs)}) = 3
    /\ \E slug \in DOMAIN books.val : \E key \in DOMAIN books.val[slug].chapters :
          books.val[slug].chapters[key].verseCount = 0

\* position of a book name in [...OT, ...NT]
CanonPos(name) == CHOOSE p \in 1..Len(Canon) : Canon[p] = name

\* (book position, chapter, verse) of r1 is not after that of r2
NotAfter(r1, r2) ==
    LET b1 == CanonPos(r1.bookName)
        b2 == CanonPos(r2.bookName)
    IN  \/ b1 < b2
        \/ /\ b1 = b2
           /\ r1.chapter.k = "num" /\ r2.chapter.k = "num"
           /\ \/ r1.chapter.n < r2.chapter.n
              \/ r1.chapter.n = r2.chapter.n /\ r1.verse <= r2.verse

\* C3: the flattened sequence is ordered by (position of the book in the
\* canonical list, chapter number compared numerically, verse number): of two
\* adjacent elements the later one is not smaller.
C3_FlattenOrdered ==
    Flattened => \A p \in 1..(Len(refs) - 1) : NotAfter(refs[p], refs[p + 1])

\* chapter 10 follows chapter 2 in one book, and the book written with the
\* keys "3","1","2" is flattened as well
C3_Witness ==
    /\ Flattened
    /\ \E p \in 1..(Len(refs) - 1) :
          /\ refs[p].bookSlug = refs[p + 1].bookSlug
          /\ refs[p].chapter = JNum(2) /\ refs[p + 1].chapter = JNum(10)
    /\ \E n \in DOMAIN store : store[n] = Shape2(BookB, <<3, 1, 2>>, "scalar")
    /\ \E p \in 1..(Len(refs) - 2) :
          /\ refs[p].chapter = JNum(1) /\ refs[p + 1].chapter = JNum(2)
          /\ refs[p + 2].chapter = JNum(3)

\* C4: for every index of the flattened sequence the links handed to the
\* page renderer are: prev absent iff the index is 0, else the projection of
\* the element before; next absent iff the index is the last, else the
\* projection of the element after.
C4_PrevNext ==
    \A p \in 1..Len(versePages) :
        /\ (versePages[p].prevRef = <<>>) <=> (p = 1)
        /\ p > 1 => versePages[p].prevRef = <<Projection(refs[p - 1])>>
        /\ (versePages[p].nextRef = <<>>) <=> (p = Len(refs))
        /\ p < Len(refs) => versePages[p].nextRef = <<Projection(refs[p + 1])>>
        /\ Projection(versePages[p]) = Projection(refs[p])

\* every page of a build of at least four verses has been written
C4_Witness == pc = "done" /\ Len(refs) >= 4 /\ Len(versePages) = Len(refs)

\* the chapter numbers of a book that have at least one verse
VerseChapters(slug) ==
    {StringToNumber(key).n : key \in {q \in DOMAIN books.val[slug].chapters :
                                        books.val[slug].chapters[q].verseCount > 0}}
\* the positions in the canonical list of the corpus books that have a verse
VerseBooks ==
    {p \in 1..Len(Canon) :
        CanonSlug[p] \in DOMAIN books.val /\ VerseChapters(CanonSlug[p]) # {}}
SlugPos(slug) == CHOOSE p \in 1..Len(Canon) : CanonSlug[p] = slug
Least(S) == CHOOSE a \in S : \A b \in S : a <= b
Greatest(S) == CHOOSE a \in S : \A b \in S : a >= b
VerseCountOf(slug, c) == books.val[slug].chapters[Dec(c)].verseCount
Link(slug, c, v) == <<[bookSlug |-> slug, chapter |-> JNum(c), verse |-> v]>>

\* the verse that follows (slug, c, v) across chapter and book boundaries
FollowingVerse(slug, c, v) ==
    LET laterChapters == {d \in VerseChapters(slug) : d > c}
        laterBooks == {p \in VerseBooks : p > SlugPos(slug)}
    IN  IF v < VerseCountOf(slug, c) THEN Link(slug, c, v + 1)
        ELSE IF laterChapters # {} THEN Link(slug, Least(laterChapters), 1)
        ELSE IF laterBooks # {}
             THEN Link(CanonSlug[Least(laterBooks)],
                       Least(VerseChapters(CanonSlug[Least(laterBooks)])), 1)
        ELSE <<>>

\* the verse that precedes (slug, c, v) across chapter and book boundaries
PrecedingVerse(slug, c, v) ==
    LET earlierChapters == {d \in VerseChapters(slug) : d < c}
        earlierBooks == {p \in VerseBooks : p < SlugPos(slug)}
    IN  IF v > 1 THEN Link(slug, c, v - 1)
        ELSE IF earlierChapters # {}
             THEN Link(slug, Greatest(earlierChapters),
                       VerseCountOf(slug, Greatest(earlierChapters)))
        ELSE IF earlierBooks # {}
             THEN LET s == CanonSlug[Greatest(earlierBooks)]
                      d == Greatest(VerseChapters(s))
                  IN  Link(s, d, VerseCountOf(s, d))
        ELSE <<>>

\* C5: navigation crosses chapter and book boundaries: after the last verse
\* of a chapter comes verse 1 of the next chapter of the book that has a
\* verse; after the last verse of a book comes the first verse of the next
\* book in canonical order that is in the corpus and has a verse (missing
\* and verseless books are skipped); prev is the mirror image.
C5_BoundaryLinks ==
    \A p \in 1..Len(versePages) :
        LET pg == versePages[p]
        IN  /\ pg.nextRef = FollowingVerse(pg.bookSlug, pg.chapter.n, pg.verse)
            /\ pg.prevRef = PrecedingVerse(pg.bookSlug, pg.chapter.n, pg.verse)

\* a link from Genesis to Matthew over an Exodus without verses, and a link
\* from chapter 1 to chapter 3 over a chapter 2 without verses
C5_Witness ==
    /\ CanonSlug[2] \in DOMAIN books.val
    /\ \E p \in 2..Len(versePages) :
          /\ versePages[p].bookSlug = CanonSlug[40]
          /\ versePages[p].prevRef # <<>>
          /\ versePages[p].prevRef[1].bookSlug = CanonSlug[1]
          /\ versePages[p - 1].nextRef[1].bookSlug = CanonSlug[40]
    /\ \E p \in 1..Len(versePages) :
          /\ versePages[p].chapter = JNum(1)
          /\ versePages[p].nextRef # <<>>
          /\ versePages[p].nextRef[1].chapter = JNum(3)
          /\ versePages[p].nextRef[1].bookSlug = versePages[p].bookSlug

\* ------------------------------------------------------------------------
\* Properties of the sitemaps
\* ------------------------------------------------------------------------
\* the path of a URL of the site: what follows SITE
PathOf(loc) == SubSeq(loc, Len(SITE) + 1, Len(loc))
Slashes(path) == Cardinality({q \in 1..Len(path) : path[q] = "/"})
IsSiteUrl(loc) == Len(loc) > Len(SITE) /\ SubSeq(loc, 1, Len(SITE)) = SITE
\* /slug/ , /slug/chapter/ , /slug/chapter/verse/
IsBookHub(loc) == IsSiteUrl(loc) /\ Slashes(PathOf(loc)) = 2
IsChapterHub(loc) == IsSiteUrl(loc) /\ Slashes(PathOf(loc)) = 3
IsLeaf(loc) == IsSiteUrl(loc) /\ Slashes(PathOf(loc)) = 4
\* the slug a URL starts with: the segment between its first two slashes
SlugOfLoc(loc) ==
    LET path == PathOf(loc)
        stop == CHOOSE q \in 2..Len(path) :
                    path[q] = "/" /\ \A u \in 2..(q - 1) : path[u] # "/"
    IN  SubSeq(path, 2, stop - 1)
\* how many entries of a list have the URL `loc`
Entries(items, loc) == Cardinality({q \in 1..Len(items) : items[q].loc = loc})
Occurrences(seq, x) == Cardinality({q \in 1..Len(seq) : seq[q] = x})

\* C6: in the output of urlsByBook, for every book of the corpus the number
\* of leaf (verse) URL entries of the book's list equals the sum of verseCount
\* over the book's chapters, and each leaf entry is the URL
\* /{slug}/{chapter}/{verse}/ of one flattened reference of that book.
C6_LeafCount ==
    Grouped =>
        \A slug \in DOMAIN books.val :
            /\ slug \in DOMAIN byBook.val
            /\ LET items == byBook.val[slug]
                   leaves == {q \in 1..Len(items) : IsLeaf(items[q].loc)}
               IN  /\ Cardinality(leaves) = BookVerseTotal(books.val[slug])
                   /\ \A q \in leaves :
                         \E p \in 1..Len(refs) :
                            /\ refs[p].bookSlug = slug
                            /\ items[q].loc =
                                  VerseLoc(slug, refs[p].chapter, refs[p].verse)

\* the lists of three books are grouped: one of four verses over three
\* chapters, and one that has hubs only
C6_Witness ==
    /\ Grouped
    /\ Cardinality(DOMAIN byBook.val) = 3
    /\ \E slug \in DOMAIN byBook.val :
          /\ Cardinality({q \in 1..Len(byBook.val[slug]) :
                             IsLeaf(byBook.val[slug][q].loc)}) >= 3
          /\ Cardinality(DOMAIN books.val[slug].chapters) >= 2
    /\ \E slug \in DOMAIN byBook.val :
          /\ Len(byBook.val[slug]) > 0
          /\ \A q \in 1..Len(byBook.val[slug]) : ~IsLeaf(byBook.val[slug][q].loc)

\* C7: hub completeness of urlsByBook: every chapter that yields a verse
\* reference has exactly one chapter hub entry in its book's list, every book
\* that has a chapter has exactly one book hub entry in its list, and every
\* list that has a chapter hub entry has the hub entry of that chapter's book.
C7_HubCompleteness ==
    Grouped =>
        /\ \A p \in 1..Len(refs) :
              /\ refs[p].bookSlug \in DOMAIN byBook.val
              /\ Entries(byBook.val[refs[p].bookSlug],
                         ChapterLoc(refs[p].bookSlug, refs[p].chapter)) = 1
        /\ \A slug \in DOMAIN books.val :
              DOMAIN books.val[slug].chapters # {} =>
                 /\ slug \in DOMAIN byBook.val
                 /\ Entries(byBook.val[slug], BookLoc(slug)) = 1
        /\ \A slug \in DOMAIN byBook.val :
              \A q \in 1..Len(byBook.val[slug]) :
                 IsChapterHub(byBook.val[slug][q].loc) =>
                    Entries(byBook.val[slug],
                            BookLoc(SlugOfLoc(byBook.val[slug][q].loc))) = 1

\* a list with three chapter hubs, one of them of a chapter without a verse
C7_Witness ==
    /\ Grouped
    /\ \E slug \in DOMAIN byBook.val :
          /\ Cardinality({q \in 1..Len(byBook.val[slug]) :
                             IsChapterHub(byBook.val[slug][q].loc)}) = 3
          /\ Cardinality({refs[p].chapter :
                             p \in {u \in 1..Len(refs) : refs[u].bookSlug = slug}}) = 2
          /\ Entries(byBook.val[slug], BookLoc(slug)) = 1

\* the books that have at least one URL in the grouped output
BooksWithUrls == {slug \in DOMAIN byBook.val : Len(byBook.val[slug]) > 0}

\* C8: the sitemap index written by buildAll lists exactly one entry for
\* sitemaps/main.xml plus exactly one entry sitemaps/{slug}.xml per book that
\* has at least one URL in the grouped output, with no duplicate and no entry
\* for a book that is not in the corpus.
C8_SitemapIndex ==
    pc = "done" =>
        LET listed == smIndex[1]
        IN  /\ Occurrences(listed, SitemapLoc(MainFile)) = 1
            /\ \A slug \in BooksWithUrls : Occurrences(listed, SitemapLoc(slug)) = 1
            /\ Len(listed) = 1 + Cardinality(BooksWithUrls)
            /\ \A q \in 1..Len(listed) :
                  \/ listed[q] = SitemapLoc(MainFile)
                  \/ \E slug \in DOMAIN books.val : listed[q] = SitemapLoc(slug)

\* the index of a build of two books, one of them without a chapter, whose
\* book index names a canonical book more and a book outside the canon
C8_Witness ==
    /\ pc = "done"
    /\ Len(smIndex[1]) = 3
    /\ \E slug \in DOMAIN books.val : DOMAIN books.val[slug].chapters = {}
    /\ Tobit \in nameSet
    /\ Len(warnings) = Len(Canon) - 2

\* the lastmod values of all the entries the build has written
Stamps ==
    {mainXml[q].lastmod : q \in 1..Len(mainXml)}
    \cup UNION {{bookXmls[q].items[u].lastmod : u \in 1..Len(bookXmls[q].items)} :
                   q \in 1..Len(bookXmls)}

\* C9: all sitemap entries produced by one build carry the same lastModified
\* value: every entry of every per-book list and the entry of the main/root
\* sitemap have one identical timestamp, whatever time elapses during the
\* build.
C9_SameLastmod == pc = "done" => Cardinality(Stamps) = 1

\* a finished build whose main.xml entry is stamped later than the entries of
\* a per-book file: the clock moved while ensureDir(smDir) was awaited
C9_TwoStamps ==
    /\ pc = "done"
    /\ \E q \in 1..Len(bookXmls) : \E u \in 1..Len(bookXmls[q].items) :
          bookXmls[q].items[u].lastmod < mainXml[1].lastmod

\* C10: corpus assembly: the key set of the assembled corpus is exactly the
\* slugs of the canonical names that are in the book index; a canonical name
\* absent from the index produces one warning, contributes no flattened
\* reference and no sitemap entry and does not abort the build (a build is
\* rejected only by the load of a file it asked for or by the book it was
\* normalizing, which is in the index); a name of the index outside the 66
\* canonical names is never loaded.
C10_Assembly ==
    LET present == {p \in 1..Len(Canon) : Canon[p] \in Range(index)}
        absent == (1..Len(Canon)) \ present
    IN  /\ Flattened =>
              /\ DOMAIN books.val = {CanonSlug[p] : p \in present}
              /\ Range(books.keys) = DOMAIN books.val
              /\ Len(warnings) = Cardinality(absent)
              /\ \A p \in absent :
                    /\ Occurrences(warnings, Canon[p]) = 1
                    /\ \A q \in 1..Len(refs) :
                          refs[q].bookName # Canon[p] /\ refs[q].bookSlug # CanonSlug[p]
                    /\ CanonSlug[p] \notin DOMAIN byBook.val
                    /\ CanonSlug[p] \notin Range(byBook.keys)
                    /\ SitemapLoc(CanonSlug[p]) \notin Range(smEntries)
                    /\ \A q \in 1..Len(bookXmls) : bookXmls[q].file # CanonSlug[p]
        /\ pc = "done" => \A p \in absent : SitemapLoc(CanonSlug[p]) \notin Range(smIndex[1])
        /\ \A q \in 1..Len(requested) :
              \/ requested[q] = BooksJson
              \/ \E p \in present : requested[q] = fileFromName(Canon[p])
        /\ \A name \in Range(index) \ Range(Canon) :
              fileFromName(name) \notin Range(requested)
        /\ pc = "failed" =>
              \/ err.msg = "Unable to load" /\ err.rel \in Range(requested)
              \/ err.msg = "Unrecognized book JSON structure." /\ cur \in present

\* a build has finished whose index names Genesis, Matthew and a book outside
\* the canon but not Exodus, and both books contribute references
C10_Witness ==
    /\ pc = "done"
    /\ Genesis \in Range(index) /\ Matthew \in Range(index)
    /\ Tobit \in Range(index) /\ Exodus \notin Range(index)
    /\ Len(warnings) = Len(Canon) - 2
    /\ \E q \in 1..Len(refs) : refs[q].bookName = Genesis
    /\ \E q \in 1..Len(refs) : refs[q].bookName = Matthew
    /\ Len(smIndex[1]) = 3

\* ------------------------------------------------------------------------
\* Properties of the failures
\* ------------------------------------------------------------------------
\* the message of the Error normalizeBook throws
UnrecognizedMessage ==
    <<"U","n","r","e","c","o","g","n","i","z","e","d"," ","b","o","o","k"," ",
      "J","S","O","N"," ","s","t","r","u","c","t","u","r","e",".">>
\* `text` has `part` as a substring
Contains(text, part) ==
    \E q \in 1..(Len(text) - Len(part) + 1) : SubSeq(text, q, q + Len(part) - 1) = part
\* buildAll was rejected by normalizeBook
NormalizeFailed == pc = "failed" /\ err.msg = "Unrecognized book JSON structure."

\* C11: when the raw blob of a book matches none of the three recognized
\* shapes, normalizeBook fails with a condition that names the offending
\* book: the name of the book is in the diagnostic the build aborts with.
C11_DiagnosticNamesBook ==
    NormalizeFailed => Contains(UnrecognizedMessage, Canon[cur])

\* the build was rejected while normalizing Matthew, after Genesis was stored
C11_Witness ==
    /\ NormalizeFailed
    /\ Canon[cur] = Matthew
    /\ CanonSlug[1] \in DOMAIN books.val

\* ------------------------------------------------------------------------
\* slugify applied to pairs of names
\* ------------------------------------------------------------------------
\* the characters of the names tried besides the canonical ones: a capital,
\* a small letter, a digit, white space and punctuation
SlugAlphabet == {"A", "b", "1", " ", "\t", "-", "'"}
MaxNameLen == 3

SlugInit ==
    /\ nin \in {<<Canon[p], Canon[q]>> : p \in 1..Len(Canon), q \in 1..Len(Canon)}
                \cup {<<s, s>> : s \in SeqsUpTo(SlugAlphabet, MaxNameLen)}
    /\ nout = NoResult
    /\ index = <<>>
    /\ store = EmptyObject
    /\ BuildStart

\* slugify(a), slugify(b)
Slugify ==
    /\ nout = NoResult
    /\ nout' = <<slugify(nin[1]), slugify(nin[2])>>
    /\ UNCHANGED <<envVars, now, pc, assets, loadVars, asmVars, refs, hubVars,
                   pageVars, mapVars, err, nin>>

SpecSlug == SlugInit /\ [][Slugify]_vars

\* a string of small letters, digits and hyphens
IsSlug(s) == \A q \in 1..Len(s) : IsLower(s[q]) \/ IsDigit(s[q]) \/ s[q] = "-"

\* C13: slugify is a total function of the name (it returns a string of
\* [a-z0-9-] for every name, equal names giving equal slugs), and over the
\* 66 canonical names it is injective: two distinct canonical names have
\* distinct slugs.
C13_SlugInjective ==
    nout # NoResult =>
        /\ IsSlug(nout[1]) /\ IsSlug(nout[2])
        /\ nin[1] = nin[2] => nout[1] = nout[2]
        /\ (nin[1] \in Range(Canon) /\ nin[2] \in Range(Canon) /\ nin[1] # nin[2])
              => nout[1] # nout[2]

\* the slugs of "1 Samuel" and "2 Samuel" have been computed
C13_Witness ==
    /\ nin = <<OT[9], OT[10]>>
    /\ nout = << <<"1","-","s","a","m","u","e","l">>, <<"2","-","s","a","m","u","e","l">> >>

\* ------------------------------------------------------------------------
\* normalizeBook and flattenRefs applied to raw book JSON of any form
\* ------------------------------------------------------------------------
MaxEntries == 2
MaxRawChapters == 2

\* what a verse number or a chapter number is written as: absent, a number,
\* the decimal string of a number, one with a leading zero, not a number
VerseNumberValues ==
    {Undef, JNum(1), JNum(2), JStr(<<"2">>), JStr(<<"0","1">>), JStr(<<"x">>)}
ChapterNumberValues ==
    {Undef, JNum(1), JNum(2), JStr(<<"2">>), JStr(<<"0","2">>), JStr(<<"x">>)}
VerseKeys == {<<"1">>, <<"2">>, <<"0","1">>, <<"x">>}
ChapterKeys == {<<"1">>, <<"2">>, <<"0","2">>, <<"x">>}

\* the entries of an array of verses: scalars and verse objects
ScalarEntries == {JStr(<<"a">>), JStr(<<"b">>), Null}
ObjectEntrySet ==
    {VObj(n, Undef, Undef, JStr(<<"a">>), Undef) : n \in VerseNumberValues}
        \cup {VObj(Undef, JNum(2), Undef, Undef, JStr(<<"b">>)),
              VObj(Null, Undef, JNum(2), Null, Undef),
              VObj(Undef, Undef, Undef, Undef, Undef)}
\* the values of a mapping of verses
MappingValues ==
    {JStr(<<"a">>), Null, VObj(JNum(1), Undef, Undef, JStr(<<"b">>), Undef)}

\* the sequences of at most n key-value pairs with distinct keys
KeyedSeqs(keys, vals, n) ==
    {s \in SeqsUpTo(keys \X vals, n) :
        \A p \in 1..Len(s) : \A q \in 1..Len(s) : p # q => s[p][1] # s[q][1]}

\* the verses of one chapter: arrays and mappings of entries
RawArrays == {VArr(s) : s \in SeqsUpTo(ScalarEntries \cup ObjectEntrySet, MaxEntries)}
RawMappings == {VMap(s) : s \in KeyedSeqs(VerseKeys, MappingValues, MaxEntries)}
RawVerses == RawArrays \cup RawMappings \cup {VNone}
\* three plain ones, for the books of several chapters
PlainVerses == {VArr(<<JStr(<<"a">>)>>), VArr(<<JStr(<<"a">>), JStr(<<"b">>)>>), VNone}

\* books of one chapter, numbered 1, with verses of any form
OneChapterBlobs ==
    {DataChArr(<<[chapter |-> JNum(1), verses |-> w]>>) : w \in RawVerses}
        \cup {DataChMap(<< <<(<<"1">>), w>> >>) : w \in RawVerses}
        \cup {DataArr(<<w>>) : w \in RawArrays}
\* books of several chapters with chapter numbers of any form
ManyChapterBlobs ==
    {DataChArr(s) :
        s \in SeqsUpTo([chapter : ChapterNumberValues, verses : PlainVerses],
                       MaxRawChapters)}
        \cup {DataChMap(s) : s \in KeyedSeqs(ChapterKeys, PlainVerses, MaxRawChapters)}
        \cup {DataArr(s) : s \in SeqsUpTo(PlainVerses, MaxRawChapters)}
RawBlobs == OneChapterBlobs \cup ManyChapterBlobs \cup {DataOther}

RawInit ==
    /\ nin \in RawBlobs
    /\ nout = <<>>
    /\ index = <<>>
    /\ store = EmptyObject
    /\ BuildStart

\* normalizeBook("Genesis", raw)
NormalizeRaw ==
    /\ nout = <<>>
    /\ nout' = <<normalizeBook(Genesis, nin)>>
    /\ UNCHANGED <<envVars, now, pc, assets, loadVars, asmVars, refs, hubVars,
                   pageVars, mapVars, err, nin>>

\* flattenRefs(books) of the corpus that holds the normalized book
FlattenRaw ==
    /\ Len(nout) = 1
    /\ nout[1].ok
    /\ nout' = Append(nout, flattenRefs(MapSet(EmptyMap, CanonSlug[1], nout[1].book)))
    /\ UNCHANGED <<envVars, now, pc, assets, loadVars, asmVars, refs, hubVars,
                   pageVars, mapVars, err, nin>>

NextRaw == NormalizeRaw \/ FlattenRaw
SpecRaw == RawInit /\ [][NextRaw]_vars

\* normalizeBook has returned a Book
Normalized == Len(nout) >= 1 /\ nout[1].ok
RawChapters == nout[1].book.chapters

\* C14: in every Book returned by normalizeBook, for every chapter,
\* verseCount equals the number of distinct keys of that chapter's verses
\* map, also when the raw input repeats a verse number or a chapter number.
C14_VerseCountIsKeyCount ==
    Normalized =>
        \A key \in DOMAIN RawChapters :
            RawChapters[key].verseCount = Cardinality(DOMAIN RawChapters[key].verses)

\* two verse objects of one chapter carry the same number, written 2 and "2"
C14_Witness ==
    /\ Normalized
    /\ nin.k = "chArr" /\ Len(nin.chs) = 1
    /\ nin.chs[1].verses.k = "arr"
    /\ Len(nin.chs[1].verses.items) = 2
    /\ nin.chs[1].verses.items[1].k = "obj" /\ nin.chs[1].verses.items[1].verse = JNum(2)
    /\ nin.chs[1].verses.items[2].k = "obj"
    /\ nin.chs[1].verses.items[2].verse = JStr(<<"2">>)
    /\ RawChapters[<<"1">>].verseCount = 1

\* the key a chapter number is stored under: String(Number(chNum))
NaNKey == <<"N","a","N">>

\* C15: a chapter whose chapter number is missing, non-numeric or malformed
\* is stored under its 1-based position in the chapter list, a verse object
\* whose verse/num/v value is non-numeric or malformed under its 1-based
\* position in the verse list; no chapter or verse is stored under a key
\* that is not an integer.
C15_PositionForMalformed ==
    Normalized =>
        /\ \A key \in DOMAIN RawChapters :
              /\ IsIndexKey(key)
              /\ \A vk \in DOMAIN RawChapters[key].verses : IsIndexKey(vk)
        /\ nin.k = "chArr" =>
              \A p \in 1..Len(nin.chs) :
                 JSNumber(nin.chs[p].chapter).k = "nan" => Dec(p) \in DOMAIN RawChapters

\* a chapter written without a number is stored under the key "NaN", and a
\* verse object numbered "x" under the key "x"
C15_Witness ==
    /\ Normalized
    /\ \/ /\ nin.k = "chArr" /\ Len(nin.chs) = 2
          /\ nin.chs[2].chapter = Undef
          /\ NaNKey \in DOMAIN RawChapters
          /\ <<"2">> \notin DOMAIN RawChapters
       \/ /\ nin.k = "chArr" /\ Len(nin.chs) = 1
          /\ nin.chs[1].verses.k = "arr" /\ Len(nin.chs[1].verses.items) = 1
          /\ nin.chs[1].verses.items[1].k = "obj"
          /\ nin.chs[1].verses.items[1].verse = JStr(<<"x">>)
          /\ DOMAIN RawChapters[<<"1">>].verses = {<<"x">>}

\* flattenRefs has returned for the normalized book
FlattenedRaw == Len(nout) = 2

\* C16: normalizeBook stores every verse under the canonical decimal string
\* of its verse number (no leading zeros, sign or white space), whether the
\* number came from a verse object's verse/num/v field or from a mapping key,
\* so that the lookup verses[String(v)] of flattenRefs finds the text of verse
\* v: a verse stored for the number n is stored under String(n), and the
\* reference flattenRefs emits for verse n carries its text.
C16_CanonicalVerseKeys ==
    Normalized =>
        \A key \in DOMAIN RawChapters :
            \A vk \in DOMAIN RawChapters[key].verses :
                StringToNumber(vk).k = "num" =>
                    /\ vk = Dec(StringToNumber(vk).n)
                    /\ FlattenedRaw =>
                          \A p \in 1..Len(nout[2]) :
                             (JSString(nout[2][p].chapter) = key
                                 /\ nout[2][p].verse = StringToNumber(vk).n)
                                => nout[2][p].text = RawChapters[key].verses[vk]

\* the mapping {"01": "a"} has been normalized and flattened: verse 1 of the
\* chapter is emitted with the empty text
C16_Witness ==
    /\ FlattenedRaw
    /\ nin = DataChMap(<< <<(<<"1">>), VMap(<< <<(<<"0","1">>), JStr(<<"a">>)>> >>)>> >>)
    /\ RawChapters[<<"1">>].verses = (<<"0","1">> :> <<"a">>)
    /\ Len(nout[2]) = 1 /\ nout[2][1].verse = 1 /\ nout[2][1].text = <<>>

\* what the claim takes a verse entry to mean: the text of a scalar entry is
\* its string form (nothing for null), that of an object entry its text or t
\* or else the empty string; the number of an array entry is its verse, num
\* or v, or else its 1-based position, that of a mapping entry its key
EntryText(e) ==
    IF e.k = "obj" THEN JSString(Coalesce(e.text, Coalesce(e.t, JStr(<<>>))))
    ELSE JSString(Coalesce(e, JStr(<<>>)))
EntryNumber(e, p) ==
    IF e.k = "obj"
    THEN JSString(Coalesce(e.verse, Coalesce(e.num, Coalesce(e.v, JNum(p)))))
    ELSE Dec(p)
\* the verses of the one chapter of the raw book, whatever its shape
OnlyVerses ==
    CASE nin.k = "chArr" -> nin.chs[1].verses
      [] nin.k = "chMap" -> nin.ents[1][2]
      [] nin.k = "arr" -> nin.rows[1]
OneChapter ==
    \/ nin.k = "chArr" /\ Len(nin.chs) = 1 /\ nin.chs[1].chapter = JNum(1)
    \/ nin.k = "chMap" /\ Len(nin.ents) = 1 /\ nin.ents[1][1] = <<"1">>
    \/ nin.k = "arr" /\ Len(nin.rows) = 1 /\ nin.rows[1].k = "arr"

\* C17: verse-entry interpretation is the same in every shape and for both
\* forms of a chapter's verses (array or mapping): a scalar entry's string
\* form is the verse text, an object entry takes its text from text or t
\* (empty when neither is present) and its number from verse, num or v (its
\* 1-based position when none is present). An entry is stored with that text
\* under its number, unless a later entry of the chapter has the same number.
C17_EntryInterpretation ==
    (Normalized /\ OneChapter) =>
        LET w == OnlyVerses
            stored == RawChapters[<<"1">>].verses
        IN  /\ w.k = "arr" =>
                  \A p \in 1..Len(w.items) :
                     (\A q \in (p + 1)..Len(w.items) :
                         EntryNumber(w.items[q], q) # EntryNumber(w.items[p], p))
                        => /\ EntryNumber(w.items[p], p) \in DOMAIN stored
                           /\ stored[EntryNumber(w.items[p], p)] = EntryText(w.items[p])
            /\ w.k = "map" =>
                  \A p \in 1..Len(w.ents) :
                     /\ w.ents[p][1] \in DOMAIN stored
                     /\ stored[w.ents[p][1]] = EntryText(w.ents[p][2])

\* a mapping whose value is a verse object has been normalized: the text
\* stored is "[object Object]"
C17_Witness ==
    /\ Normalized /\ OneChapter
    /\ OnlyVerses.k = "map" /\ Len(OnlyVerses.ents) = 1
    /\ OnlyVerses.ents[1][2].k = "obj"
    /\ RawChapters[<<"1">>].verses[OnlyVerses.ents[1][1]] = JSString(OnlyVerses.ents[1][2])

\* the references of the flattened sequence that belong to the chapter `key`
RefsOfChapter(key) == SelectSeq(nout[2], LAMBDA r : JSString(r.chapter) = key)

\* C18: for every chapter of every corpus book, flattenRefs emits exactly the
\* verse numbers 1..verseCount, each once and in ascending order; when the
\* verses map has no key for a number of that range the emitted text is the
\* empty string, and flattenRefs does not fail.
C18_DenseVerses ==
    FlattenedRaw =>
        /\ \A key \in DOMAIN RawChapters :
              LET emitted == RefsOfChapter(key)
                  chapter == RawChapters[key]
              IN  /\ Len(emitted) = chapter.verseCount
                  /\ \A p \in 1..Len(emitted) :
                        /\ emitted[p].verse = p
                        /\ emitted[p].text =
                              IF Dec(p) \in DOMAIN chapter.verses
                              THEN chapter.verses[Dec(p)] ELSE <<>>
        /\ \A p \in 1..Len(nout[2]) : JSString(nout[2][p].chapter) \in DOMAIN RawChapters

\* a chapter whose verses are stored under "2" and "x" has been flattened:
\* verse 1 is emitted with the empty text, verse 2 with its text
C18_Witness ==
    /\ FlattenedRaw
    /\ <<"1">> \in DOMAIN RawChapters
    /\ DOMAIN RawChapters[<<"1">>].verses = {<<"2">>, <<"x">>}
    /\ Len(nout[2]) = 2
    /\ nout[2][1].verse = 1 /\ nout[2][1].text = <<>>
    /\ nout[2][2].verse = 2 /\ nout[2][2].text # <<>>

\* ------------------------------------------------------------------------
\* loadJSON on its own: one call, each source either fails or returns its
\* copy of the file
\*   nin: source -> whether it succeeds; source 0 is the local data
\*        directory, source j the j-th of BASES; the copy of source j is j
\*   nout: the call: where it is, the base of the loop, what it did so far,
\*        the value it returned, the error of the last failed fetch
\* ------------------------------------------------------------------------
Sources == 0..Len(BASES)
Attempt(src) == [e |-> "try", s |-> src]
Suspension(src) == [e |-> "sleep", s |-> src]

LoadInit ==
    /\ nin \in [Sources -> BOOLEAN]
    /\ nout = [phase |-> "read", src |-> 0, log |-> <<>>, value |-> -1, lastErr |-> -1]
    /\ index = <<>>
    /\ store = EmptyObject
    /\ BuildStart

\* try { return await readLocalJSON(rel); } catch {}
TryLocal ==
    /\ nout.phase = "read"
    /\ nout' = IF nin[0]
               THEN [nout EXCEPT !.phase = "returned", !.value = 0,
                                 !.log = Append(@, Attempt(0))]
               ELSE [nout EXCEPT !.phase = "fetch", !.src = 1,
                                 !.log = Append(@, Attempt(0))]
    /\ UNCHANGED <<envVars, now, pc, assets, loadVars, asmVars, refs, hubVars,
                   pageVars, mapVars, err, nin>>

\* (mutant) the error of a failed fetch leaves the loop: no further base
TryBase_FirstBaseOnly ==
    /\ nout.phase = "fetch"
    /\ nout' = IF nin[nout.src]
               THEN [nout EXCEPT !.phase = "returned", !.value = nout.src,
                                 !.log = Append(@, Attempt(nout.src))]
               ELSE [nout EXCEPT !.phase = "thrown", !.lastErr = nout.src,
                                 !.log = Append(@, Attempt(nout.src))]
    /\ UNCHANGED <<envVars, now, pc, assets, loadVars, asmVars, refs, hubVars,
                   pageVars, mapVars, err, nin>>

\* try { return await fetchJSON(base + rel); } catch(e){ lastErr = e.message; }
TryBase ==
    /\ nout.phase = "fetch"
    /\ nout' = IF nin[nout.src]
               THEN [nout EXCEPT !.phase = "returned", !.value = nout.src,
                                 !.log = Append(@, Attempt(nout.src))]
               ELSE [nout EXCEPT !.phase = "sleep", !.lastErr = nout.src,
                                 !.log = Append(@, Attempt(nout.src))]
    /\ UNCHANGED <<envVars, now, pc, assets, loadVars, asmVars, refs, hubVars,
                   pageVars, mapVars, err, nin>>

\* await sleep(50); then the next base, or past the loop the throw
Suspend ==
    /\ nout.phase = "sleep"
    /\ nout' = IF nout.src < Len(BASES)
               THEN [nout EXCEPT !.phase = "fetch", !.src = @ + 1,
                                 !.log = Append(@, Suspension(nout.src))]
               ELSE [nout EXCEPT !.phase = "thrown",
                                 !.log = Append(@, Suspension(nout.src))]
    /\ UNCHANGED <<envVars, now, pc, assets, loadVars, asmVars, refs, hubVars,
                   pageVars, mapVars, err, nin>>

NextLoad == TryLocal \/ TryBase \/ Suspend
SpecLoad == LoadInit /\ [][NextLoad]_vars

\* the sources attempted so far, in the order of the attempts
Attempts == SelectSeq(nout.log, LAMBDA e : e.e = "try")

\* fixed order, each source at most once, the next only after the one before
\* failed; the value returned is that of the first source that succeeds; the
\* failure is raised only after every source has failed
OrderedFallback ==
    /\ \A p \in 1..Len(Attempts) : Attempts[p].s = p - 1
    /\ \A p \in 1..(Len(Attempts) - 1) : ~nin[Attempts[p].s]
    /\ nout.phase = "returned" =>
          /\ nin[nout.value]
          /\ \A j \in Sources : j < nout.value => ~nin[j]
          /\ nout.log[Len(nout.log)] = Attempt(nout.value)
    /\ nout.phase = "thrown" =>
          /\ \A j \in Sources : ~nin[j]
          /\ Len(Attempts) = Len(BASES) + 1
          /\ nout.lastErr = Len(BASES)

\* C19 as stated: mirror fallback in loadJSON: the sources are attempted in a
\* fixed order (local, then the bases in list order), each at most once; the
\* next source is attempted only after the previous one failed and after a
\* brief suspension; the value returned is that of the first source that
\* succeeds; the fatal failure is raised only after every source has failed.
C19_MirrorFallback ==
    /\ OrderedFallback
    /\ \A p \in 1..Len(nout.log) :
          (nout.log[p].e = "try" /\ nout.log[p].s >= 1)
             => (p > 1 /\ nout.log[p - 1].e = "sleep")

\* C19 amended: as stated, but the suspension follows each failed attempt on
\* a remote base: the first base is attempted right after the local read
\* failed, every later base after the base before it failed and the
\* suspension that follows, and the fatal failure is raised after the
\* suspension that follows the failure of the last base.
C19_MirrorFallbackRemoteSuspension ==
    /\ OrderedFallback
    /\ \A p \in 1..Len(nout.log) :
          /\ (nout.log[p].e = "try" /\ nout.log[p].s = 1)
                => (p > 1 /\ nout.log[p - 1] = Attempt(0))
          /\ (nout.log[p].e = "try" /\ nout.log[p].s >= 2)
                => (p > 1 /\ nout.log[p - 1] = Suspension(nout.log[p].s - 1))
          /\ nout.log[p].e = "sleep"
                => (p > 1 /\ nout.log[p - 1] = Attempt(nout.log[p].s)
                          /\ nout.log[p].s >= 1 /\ ~nin[nout.log[p].s])
    /\ nout.phase = "thrown" => nout.log[Len(nout.log)] = Suspension(Len(BASES))

\* the third base returned the file after the local read and two bases failed
C19_Witness ==
    /\ nout.phase = "returned" /\ nout.value = 3
    /\ nout.log = <<Attempt(0), Attempt(1), Suspension(1), Attempt(2),
                    Suspension(2), Attempt(3)>>
    /\ nin[4] /\ ~nin[5]

\* ------------------------------------------------------------------------
\* Properties of the order of the stages
\* ------------------------------------------------------------------------
\* buildAll is still assembling the corpus
Assembling == pc \in {"cleanOut", "assets", "loadIndex", "loadBook"}
\* a navigation link, a verse page or a sitemap entry has been produced
Produced ==
    \/ versePages # <<>>
    \/ byBook # EmptyMap
    \/ mainXml # <<>>
    \/ bookXmls # <<>>
    \/ smEntries # <<>>
    \/ smIndex # <<>>

\* C20: stage ordering in buildAll: every book of the corpus is loaded and
\* normalized before flattenRefs runs, and flattenRefs has returned before
\* any navigation link, verse page or sitemap entry is produced; so a fatal
\* load or normalization failure of any book happens before any verse page
\* or sitemap file is written.
C20_StageOrder ==
    /\ Assembling => (refs = <<>> /\ ~Produced)
    /\ Flattened =>
          /\ DOMAIN books.val = {CanonSlug[p] : p \in {q \in 1..Len(Canon) : Canon[q] \in nameSet}}
          /\ cur = Len(Canon) + 1
          /\ ld = NoLoad
    /\ Produced => Flattened
    /\ pc = "failed" => (refs = <<>> /\ ~Produced /\ hubPages = <<>>)

\* the build was rejected at its third book, after two books with verses
\* had been loaded and normalized
C20_Witness ==
    /\ pc = "failed"
    /\ Cardinality(DOMAIN books.val) = 2
    /\ \A slug \in DOMAIN books.val : BookVerseTotal(books.val[slug]) > 0
    /\ Canon[cur] = Matthew

\* ------------------------------------------------------------------------
\* Properties that relate what is stored to what is emitted and linked
\* ------------------------------------------------------------------------
\* C21: no verse text is lost between normalization and flattening: for
\* every chapter of the book and every key k of its verses map, the flattened
\* sequence has a reference for that chapter with verse number k and the text
\* stored under k, also when the verse numbers do not form 1..verseCount.
C21_NoTextLost ==
    FlattenedRaw =>
        \A key \in DOMAIN RawChapters :
            \A vk \in DOMAIN RawChapters[key].verses :
                \E p \in 1..Len(nout[2]) :
                    /\ JSString(nout[2][p].chapter) = key
                    /\ Dec(nout[2][p].verse) = vk
                    /\ nout[2][p].text = RawChapters[key].verses[vk]

\* a chapter that supplies verse 2 only has been flattened: verseCount is 1,
\* verse 1 is emitted with the empty text and verse 2 is not emitted
C21_Witness ==
    /\ FlattenedRaw
    /\ <<"1">> \in DOMAIN RawChapters
    /\ RawChapters[<<"1">>].verses = (<<"2">> :> <<"a">>)
    /\ RawChapters[<<"1">>].verseCount = 1
    /\ Len(nout[2]) = 1 /\ nout[2][1].verse = 1 /\ nout[2][1].text = <<>>

\* bookIndexHTML: the {ch} segments of the links /{slug}/{ch}/ on a book hub
chapterLinks(chaptersCount) == {Dec(ch) : ch \in 1..chaptersCount}

\* chapterIndexHTML: the {v} segments of the links /{slug}/{chapter}/{v}/
verseLinks(versesCount) == {Dec(v) : v \in 1..versesCount}

\* String(ch) of the chapter hub pages written under /{slug}/
ChapterHubsWritten(slug) ==
    {JSString(hubPages[j].chapter) :
        j \in {q \in 1..Len(hubPages) :
                  hubPages[q].kind = "chapter" /\ hubPages[q].slug = slug}}

\* String(verse) of the verse pages written under /{slug}/{chapter}/
VersePagesWritten(slug, chapter) ==
    {Dec(versePages[j].verse) :
        j \in {q \in 1..Len(versePages) :
                  /\ versePages[q].bookSlug = slug
                  /\ JSString(versePages[q].chapter) = chapter}}

\* the flattened references of one chapter
RefsIn(slug, chapter) ==
    {q \in 1..Len(refs) :
        refs[q].bookSlug = slug /\ JSString(refs[q].chapter) = chapter}

\* C22: every chapter link on a book hub page points to a chapter hub page
\* that the build writes, and every chapter hub page written for the book is
\* linked from its book hub: the chapter numbers linked by bookIndexHTML
\* (1..number of chapters) are the chapter numbers present in the Book, also
\* when the chapter numbers are sparse.
C22_BookHubLinks ==
    Grouped =>
        \A i \in 1..Len(hubPages) :
            hubPages[i].kind = "book" =>
                /\ chapterLinks(hubPages[i].childCount)
                      = ChapterHubsWritten(hubPages[i].slug)
                /\ chapterLinks(hubPages[i].childCount)
                      = DOMAIN books.val[hubPages[i].slug].chapters

\* the book hub of a book with chapters 2 and 10 links /1/ and /2/, and the
\* chapter hubs written are /2/ and /10/
C22_Witness ==
    /\ pc = "done"
    /\ \E i \in 1..Len(hubPages) :
          /\ hubPages[i].kind = "book"
          /\ chapterLinks(hubPages[i].childCount) = {<<"1">>, <<"2">>}
          /\ ChapterHubsWritten(hubPages[i].slug) = {<<"2">>, <<"1","0">>}

\* C23: every verse link on a chapter hub page points to a verse page that
\* the build writes: the child count passed to chapterIndexHTML is the number
\* of flattened references of that chapter, also for a chapter whose
\* verseCount is 0.
C23_ChapterHubLinks ==
    Grouped =>
        \A i \in 1..Len(hubPages) :
            hubPages[i].kind = "chapter" =>
                LET chapter == JSString(hubPages[i].chapter)
                IN  /\ hubPages[i].childCount
                          = Cardinality(RefsIn(hubPages[i].slug, chapter))
                    /\ verseLinks(hubPages[i].childCount)
                          \subseteq VersePagesWritten(hubPages[i].slug, chapter)

\* the hub of a chapter without verses links its verse 1, and no verse page
\* of that chapter was written
C23_Witness ==
    /\ pc = "done"
    /\ \E i \in 1..Len(hubPages) :
          /\ hubPages[i].kind = "chapter"
          /\ books.val[hubPages[i].slug]
                .chapters[JSString(hubPages[i].chapter)].verseCount = 0
          /\ hubPages[i].childCount = 1
          /\ VersePagesWritten(hubPages[i].slug, JSString(hubPages[i].chapter)) = {}

\* homeHTML: one link /{slug}/1/1/ for every name of OT and of NT
homeHTML ==
    [p \in 1..Len(Canon) |->
        [bookSlug |-> CanonSlug[p], chapter |-> <<"1">>, verse |-> <<"1">>]]

\* dist/{slug}/{chapter}/{verse}/index.html has been written
PageWritten(link) == link.verse \in VersePagesWritten(link.bookSlug, link.chapter)

\* C24: every book link on the home page (/{slug}/1/1/ for each of the 66
\* canonical names) points to a verse page that the build writes, for every
\* book index and corpus for which the build completes.
C24_HomeLinks ==
    (pc = "done" /\ assets) => \A p \in 1..Len(homeHTML) : PageWritten(homeHTML[p])

\* a completed build whose index lacks Exodus and whose Genesis has no
\* chapter 1: the home page links /genesis/1/1/ and /exodus/1/1/, and
\* neither page was written
C24_Witness ==
    /\ pc = "done" /\ assets
    /\ Genesis \in nameSet /\ Exodus \notin nameSet /\ Matthew \in nameSet
    /\ <<"1">> \notin DOMAIN books.val[CanonSlug[1]].chapters
    /\ ~PageWritten(homeHTML[1])
    /\ ~PageWritten(homeHTML[2])
    /\ PageWritten(homeHTML[Len(OT) + 1])

\* path.join(OUT_DIR, bookSlug, String(chapter), String(verse)) of a page
PagePath(page) == <<page.bookSlug, JSString(page.chapter), Dec(page.verse)>>

\* the leaf entries of all the lists of urlsByBook's result that have `loc`
LeafEntries(loc) ==
    UNION {{<<slug, q>> : q \in {u \in 1..Len(byBook.val[slug]) :
                                     byBook.val[slug][u].loc = loc}} :
              slug \in DOMAIN byBook.val}

\* C25: no two elements of the flattened sequence have the same
\* (bookSlug, chapter, verse), so every verse page path
\* dist/{slug}/{chapter}/{verse}/index.html and every leaf sitemap URL is
\* produced exactly once per build and no page overwrites another.
C25_UniqueRefs ==
    /\ \A i, j \in 1..Len(refs) :
          Projection(refs[i]) = Projection(refs[j]) => i = j
    /\ \A i, j \in 1..Len(versePages) :
          PagePath(versePages[i]) = PagePath(versePages[j]) => i = j
    /\ Grouped =>
          \A i \in 1..Len(refs) :
              Cardinality(LeafEntries(
                  VerseLoc(refs[i].bookSlug, refs[i].chapter, refs[i].verse))) = 1

\* a completed build of three books, two of which have a verse 1 in a
\* chapter 1 and one of which has two verses in one chapter: the pages and
\* leaf URLs differ in the slug only, or in the verse only
C25_Witness ==
    /\ pc = "done"
    /\ Len(versePages) = Len(refs)
    /\ \E i, j, q \in 1..Len(refs) :
          /\ refs[i].bookSlug # refs[j].bookSlug
          /\ refs[i].chapter = refs[j].chapter /\ refs[i].verse = refs[j].verse
          /\ refs[q].bookSlug = refs[i].bookSlug
          /\ refs[q].chapter = refs[i].chapter /\ refs[q].verse # refs[i].verse

\* ------------------------------------------------------------------------
\* fetch-data: the book index written to the local data directory
\* ------------------------------------------------------------------------
\* const ALL = [...OT, ...NT] (fetch-data declares the same OT, NT and BASES)
ALL == OT \o NT

\* what one mirror answers for Books.json: a failure (HTTP status, network
\* error or text that is not JSON), or a parsed JSON value, which is an
\* array of strings or something else
FetchFailure == [ok |-> FALSE, arr |-> FALSE, items |-> <<>>]
JsonArray(items) == [ok |-> TRUE, arr |-> TRUE, items |-> items]
JsonOther == [ok |-> TRUE, arr |-> FALSE, items |-> <<>>]
RemoteAnswers ==
    { FetchFailure,
      JsonOther,
      JsonArray(<<>>),
      JsonArray(SubSeq(ALL, 1, Len(ALL) - 1)),
      JsonArray(ALL),
      JsonArray(<<Tobit>> \o NT \o OT) }

\* Array.prototype.includes over strings
Includes(items, x) == \E q \in 1..Len(items) : items[q] = x

\* no file in OUT_DIR
NoFile == [ok |-> FALSE, arr |-> FALSE, items |-> <<>>]

FetchInit ==
    /\ nin \in [1..Len(BASES) -> RemoteAnswers]
    /\ nout = [phase |-> "start", b |-> 1, lastErr |-> 0, remoteBooks |-> NoFile,
               books |-> <<>>, file |-> JsonArray(<<Tobit>>)]
    /\ index = <<>>
    /\ store = EmptyObject
    /\ BuildStart

\* await fs.rm(OUT_DIR, ...); await fs.mkdir(OUT_DIR, ...); main then calls
\* tryBases("Books.json", "json")
PrepareOutDir ==
    /\ nout.phase = "start"
    /\ nout' = [nout EXCEPT !.phase = "tryBases", !.file = NoFile]
    /\ UNCHANGED <<envVars, now, pc, assets, loadVars, asmVars, refs, hubVars,
                   pageVars, mapVars, err, nin>>

\* tryBases: one turn of for (const b of BASES): the value of the first base
\* that answers is returned; a failure is kept in lastErr and the next base
\* is tried; after the last base the error is thrown
TryBasesTurn ==
    /\ nout.phase = "tryBases"
    /\ nout' = IF nin[nout.b].ok
               THEN [nout EXCEPT !.phase = "returned", !.remoteBooks = nin[nout.b]]
               ELSE IF nout.b < Len(BASES)
                    THEN [nout EXCEPT !.b = @ + 1, !.lastErr = nout.b]
                    ELSE [nout EXCEPT !.phase = "thrown", !.lastErr = nout.b]
    /\ UNCHANGED <<envVars, now, pc, assets, loadVars, asmVars, refs, hubVars,
                   pageVars, mapVars, err, nin>>

\* (mutant) any array is kept: hasAll = Array.isArray(remoteBooks)
ChooseBooks_AnyArray ==
    /\ nout.phase = "returned"
    /\ LET hasAll == nout.remoteBooks.arr
       IN  nout' = [nout EXCEPT !.phase = "write",
                       !.books = IF hasAll THEN nout.remoteBooks.items ELSE ALL]
    /\ UNCHANGED <<envVars, now, pc, assets, loadVars, asmVars, refs, hubVars,
                   pageVars, mapVars, err, nin>>

\* const hasAll = Array.isArray(remoteBooks) && ALL.every(n =>
\* remoteBooks.includes(n)); books = hasAll ? remoteBooks : ALL;
ChooseBooks ==
    /\ nout.phase = "returned"
    /\ LET hasAll == /\ nout.remoteBooks.arr
                     /\ \A q \in 1..Len(ALL) : Includes(nout.remoteBooks.items, ALL[q])
       IN  nout' = [nout EXCEPT !.phase = "write",
                       !.books = IF hasAll THEN nout.remoteBooks.items ELSE ALL]
    /\ UNCHANGED <<envVars, now, pc, assets, loadVars, asmVars, refs, hubVars,
                   pageVars, mapVars, err, nin>>

\* catch { books = ALL; }
CatchFailure ==
    /\ nout.phase = "thrown"
    /\ nout' = [nout EXCEPT !.phase = "write", !.books = ALL]
    /\ UNCHANGED <<envVars, now, pc, assets, loadVars, asmVars, refs, hubVars,
                   pageVars, mapVars, err, nin>>

\* await fs.writeFile(path.join(OUT_DIR, "Books.json"), JSON.stringify(books,
\* null, 2)): the file holds the JSON array of the strings of books
WriteBooksJson ==
    /\ nout.phase = "write"
    /\ nout' = [nout EXCEPT !.phase = "download", !.file = JsonArray(nout.books)]
    /\ UNCHANGED <<envVars, now, pc, assets, loadVars, asmVars, refs, hubVars,
                   pageVars, mapVars, err, nin>>

NextFetch ==
    \/ PrepareOutDir
    \/ TryBasesTurn
    \/ ChooseBooks
    \/ CatchFailure
    \/ WriteBooksJson

SpecFetch == FetchInit /\ [][NextFetch]_vars

\* Books.json has been written
BooksJsonWritten == nout.phase = "download"
\* the mirrors that answer, and the first of them
Answering == {q \in 1..Len(BASES) : nin[q].ok}
FirstAnswer == nin[CHOOSE q \in Answering : \A u \in Answering : q <= u]
\* an array that includes every canonical name
IsCompleteIndex(value) ==
    value.arr /\ \A name \in Range(ALL) : name \in Range(value.items)

\* C26: in fetch-data, the Books.json written to the local data directory
\* contains all 66 canonical names for every outcome of the remote fetches:
\* the remote index is kept only when it is an array that includes every
\* canonical name, and otherwise (fetch failure on all mirrors, non-array, or
\* incomplete list) the hardcoded canonical list is written.
C26_BooksJsonCanonical ==
    BooksJsonWritten =>
        /\ Cardinality(Range(ALL)) = 66
        /\ IsCompleteIndex(nout.file)
        /\ nout.file = IF Answering # {} /\ IsCompleteIndex(FirstAnswer)
                       THEN FirstAnswer
                       ELSE JsonArray(ALL)

\* the first mirror fails, the second answers an array that lacks one
\* canonical name, a later mirror would answer a complete index: the
\* hardcoded list has been written
C26_Witness ==
    /\ BooksJsonWritten
    /\ ~nin[1].ok
    /\ nin[2] = JsonArray(SubSeq(ALL, 1, Len(ALL) - 1))
    /\ nin[3] = JsonArray(<<Tobit>> \o NT \o OT)
    /\ nout.file = JsonArray(ALL)
====
